---- MODULE Spec2Model ----
(***************************************************************************)
(* State-machine model of the resource reconcilers of the ansible-truenas  *)
(* collection (plugins/modules/*.py).  One behaviour is one module run     *)
(* (optionally followed by a second run with the same parameters): the     *)
(* module queries the middleware daemon, computes what has to change and   *)
(* issues create/update/delete/start/stop calls.  Every middleware call    *)
(* is one action; the daemon either performs it or raises an error.        *)
(* The facade and transports of plugins/module_utils (middleware.py,       *)
(* midclt.py, client.py) and setup.get_tn_version() are modelled for       *)
(* callers that use them directly and for jails.py.                        *)
(***************************************************************************)
EXTENDS Integers, Sequences, FiniteSets, TLC

VARIABLES
    mod,         \* which module (reconciler) is running
    pc,          \* position in main(): "start", a pending call, or an end state
    params,      \* module.params; a key that is None in Python is not in DOMAIN
    check_mode,  \* module.check_mode
    daemon,      \* what the daemon's query method returns: a list of 0 or 1 records
    info,        \* the query result held by the module (xxx_info)
    arg,         \* the payload being assembled (arg / update_args / changes)
    calls,       \* middleware calls issued in this run, in order
    result,      \* the result dict handed to exit_json
    local,       \* other local variables of main() (work lists, loop counters)
    run,         \* number of the current invocation
    tn_version,  \* setup.tn_version, the memoized result of get_tn_version()
    mw           \* the middleware facade of the process: flag, transport, connection

vars == <<mod, pc, params, check_mode, daemon, info, arg, calls, result, local, run,
          tn_version, mw>>

\* Number of consecutive invocations with the same parameters.
MaxRuns == 2

(***************************************************************************)
(* Python values.                                                          *)
(***************************************************************************)
\* Python's None, where it is stored as a value (daemon fields, payloads).
None == "None"

NoArg == [k \in {} |-> None]

Has(d, k) == k \in DOMAIN d

Put(d, k, v) == [x \in (DOMAIN d) \cup {k} |-> IF x = k THEN v ELSE d[x]]

Merge(base, over) ==
    [x \in (DOMAIN base) \cup (DOMAIN over) |->
        IF x \in DOMAIN over THEN over[x] ELSE base[x]]

Restrict(d, ks) == [x \in (DOMAIN d) \cap ks |-> d[x]]

\* set(list)
ToSet(s) == {s[i] : i \in DOMAIN s}

(***************************************************************************)
(* The middleware facade: call() and job().                                *)
(***************************************************************************)
Call(method, kind, payload, ok) ==
    [method |-> method, kind |-> kind, payload |-> payload, ok |-> ok]

Logged(method, kind, payload, ok) == Append(calls, Call(method, kind, payload, ok))

QueryMethods ==
    {"group.query", "certificate.query", "sharing.nfs.query", "app.query",
     "jail.get_activated_pool",
     "app.config", "jail.query", "jail.get_iocroot",
     "plugin.query", "pool.dataset.query", "user.query", "user.get_next_uid",
     "pool.snapshottask.query", "smart.test.query", "disk.device_to_identifier",
     "system.version", "system.product_type", "system.product_name"}

\* jail.fstab reads with action LIST and writes with the other actions.
Mutating(c) ==
    /\ c.method \notin QueryMethods
    /\ ~(c.method = "jail.fstab" /\ c.payload = [action |-> "LIST"])

MutatingCalls == {i \in DOMAIN calls : Mutating(calls[i])}

\* End states of main(): exit_json, fail_json, uncaught exception.
EndStates == {"done", "failed", "crashed"}

NewResult == [changed |-> FALSE]

\* What a branch of main() decides: where control goes next, the payload
\* and the value of result['changed'].
Plan(p, a, ch) == [pc |-> p, arg |-> a, changed |-> ch]

Follow(plan) ==
    /\ pc' = plan.pc
    /\ arg' = plan.arg
    /\ result' = [result EXCEPT !.changed = plan.changed]

\* A mutation that is skipped in check mode.
Mutation(p, a) == IF check_mode THEN Plan("done", a, TRUE) ELSE Plan(p, a, FALSE)

(***************************************************************************)
(* group.py                                                                *)
(***************************************************************************)
GroupGids == {1000, 1001}

InitGroup ==
    /\ mod = "group"
    /\ check_mode \in BOOLEAN
    /\ \E st \in {"present", "absent"}, nu \in BOOLEAN, g \in GroupGids \cup {0} :
          /\ nu => g # 0     \* required_if non_unique: gid
          /\ params = IF g = 0
                      THEN [name |-> "g1", state |-> st, non_unique |-> nu]
                      ELSE [name |-> "g1", state |-> st, non_unique |-> nu, gid |-> g]
    /\ daemon \in {<<>>} \cup {<<[id |-> "id1", group |-> "g1", gid |-> g]>> : g \in GroupGids}

GroupCreateArg ==
    LET a0 == [name |-> params.name]
        a1 == IF Has(params, "gid") THEN Put(a0, "gid", params.gid) ELSE a0
    IN  IF Has(params, "non_unique")
        THEN Put(a1, "allow_duplicate_gid", params.non_unique) ELSE a1

GroupDiff(group_info) ==
    IF Has(params, "gid") /\ group_info.gid # params.gid
    THEN Put(NoArg, "gid", params.gid) ELSE NoArg

GroupUpdateArg(group_info) ==
    LET a == GroupDiff(group_info)
    IN  IF DOMAIN a = {} THEN a
        ELSE IF Has(params, "non_unique")
             THEN Put(a, "allow_duplicate_gid", params.non_unique) ELSE a

GroupPlan(group_info) ==
    IF group_info = <<>>
    THEN IF params.state = "present"
         THEN Mutation("group.create", GroupCreateArg)
         ELSE Plan("done", NoArg, FALSE)
    ELSE IF params.state = "present"
         THEN LET a == GroupUpdateArg(group_info[1])
              IN  IF DOMAIN a = {} THEN Plan("done", a, FALSE)
                  ELSE Mutation("group.update", a)
         ELSE Mutation("group.delete", NoArg)

\* The handler of a failed lookup reads e.stderr, which the exceptions of
\* the middleware clients do not have: the AttributeError is not caught.
GroupQuery ==
    /\ mod = "group" /\ pc = "start"
    /\ \E ok \in BOOLEAN :
          /\ calls' = Logged("group.query", "call", NoArg, ok)
          /\ IF ok
             THEN /\ info' = daemon
                  /\ Follow(GroupPlan(daemon))
             ELSE /\ info' = info
                  /\ Follow(Plan("crashed", arg, result.changed))
    /\ UNCHANGED <<mod, params, check_mode, daemon, local, run, tn_version, mw>>

\* The daemon keeps the name and gid it is given and picks a gid otherwise.
GroupStored(a) ==
    [id |-> "id1", group |-> a.name,
     gid |-> IF Has(a, "gid") THEN a.gid ELSE 1000]

GroupCreate ==
    /\ mod = "group" /\ pc = "group.create"
    /\ \E ok \in BOOLEAN :
          /\ calls' = Logged("group.create", "call", arg, ok)
          /\ daemon' = IF ok THEN <<GroupStored(arg)>> ELSE daemon
          /\ Follow(Plan(IF ok THEN "done" ELSE "failed", arg, ok))
    /\ UNCHANGED <<mod, params, check_mode, info, local, run, tn_version, mw>>

GroupUpdate ==
    /\ mod = "group" /\ pc = "group.update"
    /\ \E ok \in BOOLEAN :
          /\ calls' = Logged("group.update", "call", arg, ok)
          /\ daemon' = IF ok
                       THEN <<Merge(daemon[1], Restrict(arg, {"gid"}))>>
                       ELSE daemon
          /\ Follow(Plan(IF ok THEN "done" ELSE "failed", arg, ok))
    /\ UNCHANGED <<mod, params, check_mode, info, local, run, tn_version, mw>>

\* group.delete is not wrapped in try/except: an error is an uncaught exception.
GroupDelete ==
    /\ mod = "group" /\ pc = "group.delete"
    /\ \E ok \in BOOLEAN :
          /\ calls' = Logged("group.delete", "call", NoArg, ok)
          /\ daemon' = IF ok THEN <<>> ELSE daemon
          /\ Follow(Plan(IF ok THEN "done" ELSE "crashed", arg, ok))
    /\ UNCHANGED <<mod, params, check_mode, info, local, run, tn_version, mw>>

(***************************************************************************)
(* certificate.py                                                          *)
(***************************************************************************)
\* module.params after argument defaults: revoked is always a bool.
InitCertificate ==
    /\ mod = "certificate"
    /\ check_mode \in BOOLEAN
    /\ \E st \in {"present", "absent"}, rv \in BOOLEAN, c \in BOOLEAN, k \in BOOLEAN :
          LET p0 == [name |-> "cert1", state |-> st, revoked |-> rv]
              p1 == IF c THEN Put(p0, "certificate", "PEM") ELSE p0
          IN  /\ st = "absent" => ~c /\ ~k /\ ~rv
              /\ params = IF k THEN Put(p1, "private_key", "KEY") ELSE p1
    /\ daemon \in {<<>>} \cup
                  {<<[id |-> "id1", name |-> "cert1", revoked |-> r]>> : r \in BOOLEAN}

CertificateCreateArgBare ==
    Restrict(params, {"name", "certificate", "private_key"})
CertificateCreateArg ==
    LET a0 == [name |-> params.name, create_type |-> "CERTIFICATE_CREATE_IMPORTED"]
        a1 == IF Has(params, "certificate")
              THEN Put(a0, "certificate", params.certificate) ELSE a0
    IN  IF Has(params, "private_key")
        THEN Put(a1, "privatekey", params.private_key) ELSE a1

CertificateUpdateArg(cert_info) ==
    IF Has(params, "revoked") /\ cert_info.revoked # params.revoked
    THEN Put(NoArg, "revoked", params.revoked) ELSE NoArg

CertificatePlan(cert_info) ==
    IF cert_info = <<>>
    THEN IF params.state = "present"
         THEN Mutation("certificate.create", CertificateCreateArg)
         ELSE Plan("done", NoArg, FALSE)
    ELSE IF params.state = "present"
         THEN LET a == CertificateUpdateArg(cert_info[1])
              IN  IF DOMAIN a = {} THEN Plan("done", a, FALSE)
                  ELSE Mutation("certificate.update", a)
         ELSE Mutation("certificate.delete", NoArg)

CertificateQuery ==
    /\ mod = "certificate" /\ pc = "start"
    /\ \E ok \in BOOLEAN :
          /\ calls' = Logged("certificate.query", "call", NoArg, ok)
          /\ IF ok
             THEN /\ info' = daemon
                  /\ Follow(CertificatePlan(daemon))
             ELSE /\ info' = info
                  /\ Follow(Plan("failed", arg, result.changed))
    /\ UNCHANGED <<mod, params, check_mode, daemon, local, run, tn_version, mw>>

\* The daemon keeps the name; a new certificate is not revoked.
CertificateStored(a) == [id |-> "id1", name |-> a.name, revoked |-> FALSE]

\* After the create job: revoke when asked to, else result['changed'] = True.
CertificateAfterCreateNoRevoke ==
    Plan("done", arg, TRUE)
CertificateAfterCreate ==
    IF Has(params, "revoked") /\ params.revoked
    THEN Plan("certificate.revoke", [revoked |-> params.revoked], FALSE)
    ELSE Plan("done", arg, TRUE)

CertificateCreate ==
    /\ mod = "certificate" /\ pc = "certificate.create"
    /\ \E ok \in BOOLEAN :
          /\ calls' = Logged("certificate.create", "job", arg, ok)
          /\ daemon' = IF ok THEN <<CertificateStored(arg)>> ELSE daemon
          /\ Follow(IF ok THEN CertificateAfterCreate ELSE Plan("failed", arg, FALSE))
    /\ UNCHANGED <<mod, params, check_mode, info, local, run, tn_version, mw>>

CertificateRevoke ==
    /\ mod = "certificate" /\ pc = "certificate.revoke"
    /\ \E ok \in BOOLEAN :
          /\ calls' = Logged("certificate.update", "call", arg, ok)
          /\ daemon' = IF ok THEN <<Merge(daemon[1], arg)>> ELSE daemon
          /\ Follow(Plan(IF ok THEN "done" ELSE "failed", arg, ok))
    /\ UNCHANGED <<mod, params, check_mode, info, local, run, tn_version, mw>>

CertificateUpdate ==
    /\ mod = "certificate" /\ pc = "certificate.update"
    /\ \E ok \in BOOLEAN :
          /\ calls' = Logged("certificate.update", "call", arg, ok)
          /\ daemon' = IF ok THEN <<Merge(daemon[1], arg)>> ELSE daemon
          /\ Follow(Plan(IF ok THEN "done" ELSE "failed", arg, ok))
    /\ UNCHANGED <<mod, params, check_mode, info, local, run, tn_version, mw>>

CertificateDelete ==
    /\ mod = "certificate" /\ pc = "certificate.delete"
    /\ \E ok \in BOOLEAN :
          /\ calls' = Logged("certificate.delete", "job", NoArg, ok)
          /\ daemon' = IF ok THEN <<>> ELSE daemon
          /\ Follow(Plan(IF ok THEN "done" ELSE "failed", arg, ok))
    /\ UNCHANGED <<mod, params, check_mode, info, local, run, tn_version, mw>>

(***************************************************************************)
(* sharing_nfs2.py and sharing_nfs.py (class NFS1)                         *)
(***************************************************************************)
\* Longest list given for networks, hosts, paths, groups, sudo commands.
MaxList == 2

NfsModules == {"sharing_nfs2", "sharing_nfs"}

\* Lists without repeated elements, up to MaxList long.
ListsOver(S) ==
    UNION {{s \in [1..n -> S] : \A i, j \in 1..n : s[i] = s[j] => i = j} : n \in 0..MaxList}

NfsNets == {"n1", "n2", "n3"}

\* sharing.nfs.query returns the fields under the names sharing.nfs.create
\* takes them: the read-only flag is 'ro'.
NfsDefaults ==
    [id |-> "id1", alldirs |-> FALSE, quiet |-> FALSE, enabled |-> TRUE, ro |-> FALSE,
     maproot_user |-> None, maproot_group |-> None,
     mapall_user |-> None, mapall_group |-> None,
     networks |-> <<>>, hosts |-> <<>>]

NfsBoolParams == {"alldirs", "quiet", "enabled", "readonly"}
NfsMapParams == {"maproot_user", "maproot_group", "mapall_user", "mapall_group"}

\* The legal combinations of the map options: the two of a pair are
\* mutually exclusive, and a group option requires its user option.
NfsMapChoices ==
    {m \in UNION {[ks -> {"u1", "u2"}] : ks \in SUBSET NfsMapParams} :
        /\ ~(Has(m, "maproot_user") /\ Has(m, "mapall_user"))
        /\ ~(Has(m, "maproot_group") /\ Has(m, "mapall_group"))
        /\ Has(m, "maproot_group") => Has(m, "maproot_user")
        /\ Has(m, "mapall_group") => Has(m, "mapall_user")
        /\ \A k \in DOMAIN m : k \in {"maproot_group", "mapall_group"} => m[k] = "u1"}

NfsKey(m) ==
    IF m = "sharing_nfs2" THEN [name |-> "n", path |-> "/p"]
    ELSE [name |-> "n", paths |-> <<"/p">>]

\* The inputs vary one family of options at a time.
NfsParamChoices(m) ==
    LET key == Put(NfsKey(m), "state", "present")
    IN  {Put(NfsKey(m), "state", "absent")}
        \cup {Merge(key, b) : b \in UNION {[ks -> BOOLEAN] : ks \in SUBSET NfsBoolParams}}
        \cup {Merge(key, x) : x \in NfsMapChoices}
        \cup {Merge(key, l) :
                l \in UNION {[ks -> ListsOver(NfsNets)] : ks \in SUBSET {"networks", "hosts"}}}
        \cup (IF m = "sharing_nfs"
              THEN {Put(key, "paths", l) : l \in ListsOver({"/p", "/q"}) \ {<<>>}}
              ELSE {Put(key, "path", "/q")})

NfsObserved(m) ==
    LET base == Merge(NfsDefaults,
                      IF m = "sharing_nfs2" THEN [comment |-> "n", path |-> "/p"]
                      ELSE [comment |-> "n", paths |-> <<"/p", "/q">>])
    IN  {base, [base EXCEPT !.alldirs = TRUE, !.quiet = TRUE, !.enabled = FALSE]}
        \cup {Merge(base, x) :
                x \in [{"maproot_user", "mapall_user"} -> {None, "u1"}]}
        \cup {Merge(base, x) :
                x \in [{"maproot_group", "mapall_group"} -> {None, "u2"}]}
        \cup {[base EXCEPT !.networks = <<"n1", "n2">>, !.hosts = <<"n2", "n1">>]}

InitNfs ==
    \E m \in NfsModules :
        /\ mod = m
        /\ check_mode \in BOOLEAN
        /\ params \in NfsParamChoices(m)
        /\ daemon \in {<<>>} \cup {<<o>> : o \in NfsObserved(m)}

\* Payload key of a module option.
NfsArgKey(k) == IF k = "readonly" THEN "ro" ELSE k

\* arg for sharing.nfs.create: every option that is not None.
NfsCreateArg ==
    LET opts == (DOMAIN params) \ {"name", "state"}
    IN  [k \in {"comment"} \cup {NfsArgKey(o) : o \in opts} |->
            IF k = "comment" THEN params.name
            ELSE IF k = "ro" THEN params.readonly
            ELSE params[k]]

\* if X is not None and export_info['X'] != X: arg[key] = X
NfsFlagDiff(export_info) ==
    LET ks == {k \in NfsBoolParams : Has(params, k) /\ export_info[k] # params[k]}
    IN  [k \in {NfsArgKey(o) : o \in ks} |->
            IF k = "ro" THEN params.readonly ELSE params[k]]

\* The option mutually exclusive with k.
NfsOther(k) ==
    CASE k = "maproot_user" -> "mapall_user"
      [] k = "mapall_user" -> "maproot_user"
      [] k = "maproot_group" -> "mapall_group"
      [] k = "mapall_group" -> "maproot_group"

NfsMapSet(export_info) ==
    {k \in NfsMapParams : Has(params, k) /\ export_info[k] # params[k]}

\* A comparison that sets what the task asks for and clears nothing.
NfsMapDiffSetOnly(export_info) ==
    [k \in NfsMapSet(export_info) |-> params[k]]

\* Setting one of a pair unsets the other when the export has it set.  The
\* tests run in the order maproot_user, maproot_group, mapall_user,
\* mapall_group, and a later assignment overwrites an earlier one.
NfsMapDiff(export_info) ==
    LET set == NfsMapSet(export_info)
        clear == {NfsOther(k) : k \in {x \in set : export_info[NfsOther(x)] # None}}
        late == {"mapall_user", "mapall_group"}
    IN  [k \in set \cup clear |->
            IF k \in late
            THEN (IF k \in set THEN params[k] ELSE None)
            ELSE (IF NfsOther(k) \in set /\ export_info[k] # None THEN None
                  ELSE params[k])]

NfsListDiff(export_info) ==
    LET ks == {k \in {"networks", "hosts"} :
                  Has(params, k) /\ ToSet(params[k]) # ToSet(export_info[k])}
    IN  [k \in ks |-> params[k]]

\* sharing_nfs2: if path != export_info['path']
Nfs2PathDiff(export_info) ==
    IF params.path # export_info.path THEN [path |-> params.path] ELSE NoArg

\* NFS1: if set(paths) != set(export_info['paths'])
Nfs1PathDiff(export_info) ==
    IF ToSet(params.paths) # ToSet(export_info.paths)
    THEN [paths |-> params.paths] ELSE NoArg

NfsUpdateArg(export_info) ==
    Merge(Merge(Merge(NfsFlagDiff(export_info), NfsMapDiff(export_info)),
                IF mod = "sharing_nfs2" THEN Nfs2PathDiff(export_info)
                ELSE Nfs1PathDiff(export_info)),
          NfsListDiff(export_info))

\* export_info['readonly'] raises KeyError when the record has no such key.
NfsKeyError(export_info) ==
    \E k \in NfsBoolParams : Has(params, k) /\ ~Has(export_info, k)

NfsPlan(export_info) ==
    IF export_info = <<>>
    THEN IF params.state = "present"
         THEN Mutation("sharing.nfs.create", NfsCreateArg)
         ELSE Plan("done", NoArg, FALSE)
    ELSE IF params.state = "present"
         THEN IF NfsKeyError(export_info[1]) THEN Plan("crashed", NoArg, FALSE)
              ELSE LET a == NfsUpdateArg(export_info[1])
                   IN  IF DOMAIN a = {} THEN Plan("done", a, FALSE)
                       ELSE Mutation("sharing.nfs.update", a)
         ELSE Mutation("sharing.nfs.delete", NoArg)

NfsQuery ==
    /\ mod \in NfsModules /\ pc = "start"
    /\ \E ok \in BOOLEAN :
          /\ calls' = Logged("sharing.nfs.query", "call", NoArg, ok)
          /\ IF ok
             THEN /\ info' = daemon
                  /\ Follow(NfsPlan(daemon))
             ELSE /\ info' = info
                  /\ Follow(Plan("failed", arg, result.changed))
    /\ UNCHANGED <<mod, params, check_mode, daemon, local, run, tn_version, mw>>

NfsCreate ==
    /\ mod \in NfsModules /\ pc = "sharing.nfs.create"
    /\ \E ok \in BOOLEAN :
          /\ calls' = Logged("sharing.nfs.create", "call", arg, ok)
          /\ daemon' = IF ok THEN <<Merge(NfsDefaults, arg)>> ELSE daemon
          /\ Follow(Plan(IF ok THEN "done" ELSE "failed", arg, ok))
    /\ UNCHANGED <<mod, params, check_mode, info, local, run, tn_version, mw>>

NfsUpdate ==
    /\ mod \in NfsModules /\ pc = "sharing.nfs.update"
    /\ \E ok \in BOOLEAN :
          /\ calls' = Logged("sharing.nfs.update", "call", arg, ok)
          /\ daemon' = IF ok THEN <<Merge(daemon[1], arg)>> ELSE daemon
          /\ Follow(Plan(IF ok THEN "done" ELSE "failed", arg, ok))
    /\ UNCHANGED <<mod, params, check_mode, info, local, run, tn_version, mw>>

NfsDelete ==
    /\ mod \in NfsModules /\ pc = "sharing.nfs.delete"
    /\ \E ok \in BOOLEAN :
          /\ calls' = Logged("sharing.nfs.delete", "call", NoArg, ok)
          /\ daemon' = IF ok THEN <<>> ELSE daemon
          /\ Follow(Plan(IF ok THEN "done" ELSE "failed", arg, ok))
    /\ UNCHANGED <<mod, params, check_mode, info, local, run, tn_version, mw>>

(***************************************************************************)
(* app.py                                                                  *)
(***************************************************************************)
\* Longest time, in polls, the daemon keeps an app DEPLOYING or STOPPING.
MaxPolls == 2

\* A configuration value: a scalar or a dict of values.
S(x) == [val |-> x]
D(f) == [dict |-> f]
IsDict(x) == "dict" \in DOMAIN x

Item(k, sk, v) == [key |-> k, subkey |-> sk, value |-> v]

\* module.params['values'], flattened in iteration order.
AppValueChoices ==
    {<<>>,
     <<Item("k", "s1", S("a"))>>,
     <<Item("k", "s1", S("a")), Item("k", "s2", S("b"))>>,
     <<Item("k", "s1", D([n |-> S("a")]))>>,
     <<Item("k", "s2", S("b")), Item("k", "s3", S("c"))>>}

\* What app.config returns: (key, subkey) -> value.
AppConfigChoices ==
    {(<<"k", "s1">> :> S("a")) @@ (<<"k", "s2">> :> S("b")),
     (<<"k", "s1">> :> S("x")) @@ (<<"k", "s2">> :> S("y")),
     (<<"k", "s1">> :> D([n |-> S("a"), m |-> S("b")])) @@ (<<"k", "s2">> :> S("y"))}

AppStates == {"RUNNING", "STOPPED", "DEPLOYING", "STOPPING", "CRASHED"}

\* app.py does not declare supports_check_mode: it never runs in check mode.
InitApp ==
    /\ mod = "app"
    /\ check_mode = FALSE
    /\ \E st \in {"absent", "present", "restarted", "running", "stopped"},
          v \in AppValueChoices :
          /\ st \in {"absent", "stopped", "running"} => v = <<>>
          /\ params = [name |-> "app1", template |-> "t", train |-> "stable",
                       state |-> st, remove_ix_volumes |-> FALSE, values |-> v]
    /\ daemon \in {<<>>} \cup
                  {<<[name |-> "app1", state |-> a, config |-> c]>> :
                      a \in AppStates, c \in AppConfigChoices}

RECURSIVE _detect_changes(_, _)
_detect_changes(current_values, desired_values) ==
    IF ~IsDict(desired_values)
    THEN IF IsDict(current_values) THEN TRUE
         ELSE current_values.val # desired_values.val
    ELSE IF ~IsDict(current_values) THEN TRUE
    ELSE \E key \in DOMAIN desired_values.dict :
            \/ key \notin DOMAIN current_values.dict
            \/ _detect_changes(current_values.dict[key], desired_values.dict[key])

\* The loop over values: what happens at each subkey, in order.  Looking
\* up a subkey that app.config does not have raises KeyError.
AppStep(current_values, item) ==
    IF <<item.key, item.subkey>> \notin DOMAIN current_values THEN "KeyError"
    ELSE IF _detect_changes(current_values[<<item.key, item.subkey>>], item.value)
         THEN "update" ELSE "same"

RECURSIVE AppTodo(_, _)
AppTodo(current_values, items) ==
    IF items = <<>> THEN <<>>
    ELSE LET what == AppStep(current_values, Head(items))
         IN  IF what = "KeyError" THEN <<what>>
             ELSE IF what = "same" THEN AppTodo(current_values, Tail(items))
             ELSE <<what>> \o AppTodo(current_values, Tail(items))

\* Where main() goes next in the block for running/present/restarted.
AppContinue(todo) ==
    IF todo # <<>>
    THEN (IF Head(todo) = "KeyError" THEN "crashed" ELSE "app.update")
    ELSE IF params.state = "restarted" THEN "app.restart"
    ELSE "ensure_running"

AppPlan(app_data) ==
    IF app_data = <<>> /\ params.state # "absent" THEN Plan("app.create", NoArg, FALSE)
    ELSE IF app_data # <<>> /\ params.state = "absent" THEN Plan("app.delete", NoArg, FALSE)
    ELSE IF app_data # <<>> /\ params.state = "stopped"
         THEN IF app_data[1].state # "STOPPED" THEN Plan("app.stop", NoArg, FALSE)
              ELSE Plan("done", NoArg, FALSE)
    ELSE IF app_data # <<>> /\ params.state \in {"running", "present", "restarted"}
         THEN Plan("app.config", NoArg, FALSE)
    ELSE Plan("crashed", NoArg, FALSE)   \* raise Exception("... unknown state")

\* While the daemon deploys or stops an app its state moves on between calls.
AppSettle(state, polls) ==
    IF state = "DEPLOYING"
    THEN {"RUNNING", "CRASHED"} \cup (IF polls < MaxPolls THEN {"DEPLOYING"} ELSE {})
    ELSE IF state = "STOPPING"
    THEN {"STOPPED"} \cup (IF polls < MaxPolls THEN {"STOPPING"} ELSE {})
    ELSE {state}

AppQuery ==
    /\ mod = "app" /\ pc = "start"
    /\ \E ok \in BOOLEAN :
          /\ calls' = Logged("app.query", "call", NoArg, ok)
          /\ IF ok
             THEN /\ info' = daemon
                  /\ Follow(AppPlan(daemon))
             ELSE /\ info' = info
                  /\ Follow(Plan("crashed", arg, result.changed))
    /\ local' = [todo |-> <<>>, polls |-> 0]
    /\ UNCHANGED <<mod, params, check_mode, daemon, run, tn_version, mw>>

\* The daemon merges the values it is sent into the app's configuration.
AppMerged(config, items) ==
    [x \in (DOMAIN config) \cup {<<items[i].key, items[i].subkey>> : i \in DOMAIN items} |->
        IF \E i \in DOMAIN items : <<items[i].key, items[i].subkey>> = x
        THEN items[CHOOSE i \in DOMAIN items : <<items[i].key, items[i].subkey>> = x].value
        ELSE config[x]]

\* _create_app re-raises; then ensure_running.
AppCreate ==
    /\ mod = "app" /\ pc = "app.create"
    /\ \E ok \in BOOLEAN, st \in {"DEPLOYING", "RUNNING"} :
          LET payload == [app_name |-> params.name, catalog_app |-> params.template,
                          train |-> params.train, values |-> params.values]
          IN  /\ calls' = Logged("app.create", "job", payload, ok)
              /\ daemon' = IF ok
                           THEN <<[name |-> params.name, state |-> st,
                                   config |-> AppMerged(NoArg, params.values)]>>
                           ELSE daemon
              /\ Follow(Plan(IF ok THEN "ensure_running" ELSE "crashed", payload, ok))
    /\ UNCHANGED <<mod, params, check_mode, info, local, run, tn_version, mw>>

\* _delete_app returns (False, str(e)) when the job raises.
AppDelete ==
    /\ mod = "app" /\ pc = "app.delete"
    /\ \E ok \in BOOLEAN :
          LET payload == [remove_ix_volumes |-> params.remove_ix_volumes]
          IN  /\ calls' = Logged("app.delete", "job", payload, ok)
              /\ daemon' = IF ok THEN <<>> ELSE daemon
              /\ Follow(Plan("done", payload, ok))
    /\ UNCHANGED <<mod, params, check_mode, info, local, run, tn_version, mw>>

\* _stop_app returns (False, str(e)) when the job raises; then ensure_stopped.
AppStop ==
    /\ mod = "app" /\ pc = "app.stop"
    /\ \E ok \in BOOLEAN, st \in {"STOPPING", "STOPPED"} :
          /\ calls' = Logged("app.stop", "job", NoArg, ok)
          /\ daemon' = IF ok THEN <<[daemon[1] EXCEPT !.state = st]>> ELSE daemon
          /\ Follow(Plan("ensure_stopped", arg, ok))
    /\ UNCHANGED <<mod, params, check_mode, info, local, run, tn_version, mw>>

AppConfig ==
    /\ mod = "app" /\ pc = "app.config"
    /\ \E ok \in BOOLEAN :
          /\ calls' = Logged("app.config", "call", NoArg, ok)
          /\ LET todo == IF ok THEN AppTodo(daemon[1].config, params.values) ELSE <<>>
             IN  /\ local' = [local EXCEPT !.todo = todo]
                 /\ Follow(Plan(IF ok THEN AppContinue(todo) ELSE "crashed",
                                arg, result.changed))
    /\ UNCHANGED <<mod, params, check_mode, daemon, info, run, tn_version, mw>>

\* One update_app(values=module.params["values"]) of the loop; _update_app
\* returns (False, str(e)) when the job raises.
AppUpdate ==
    /\ mod = "app" /\ pc = "app.update"
    /\ \E ok \in BOOLEAN, st \in {"DEPLOYING", "RUNNING"} :
          LET payload == [values |-> params.values]
              todo == Tail(local.todo)
          IN  /\ calls' = Logged("app.update", "job", payload, ok)
              /\ daemon' = IF ok
                           THEN <<[daemon[1] EXCEPT !.state = st,
                                      !.config = AppMerged(@, params.values)]>>
                           ELSE daemon
              /\ local' = [local EXCEPT !.todo = todo]
              /\ Follow(Plan(AppContinue(todo), payload, ok))
    /\ UNCHANGED <<mod, params, check_mode, info, run, tn_version, mw>>

\* _restart_app returns (False, str(e)) when the job raises.
AppRestart ==
    /\ mod = "app" /\ pc = "app.restart"
    /\ \E ok \in BOOLEAN, st \in {"DEPLOYING", "RUNNING"} :
          /\ calls' = Logged("app.restart", "job", NoArg, ok)
          /\ daemon' = IF ok THEN <<[daemon[1] EXCEPT !.state = st]>> ELSE daemon
          /\ Follow(Plan("ensure_running", arg, ok))
    /\ UNCHANGED <<mod, params, check_mode, info, local, run, tn_version, mw>>

\* _ensure_running, after one app.query of the while loop reported st:
\* sleep and poll again, return, or raise.
_ensure_runningForever(st) ==
    IF st # "RUNNING" THEN "wait_running" ELSE "done"

_ensure_running(st) ==
    IF st = "DEPLOYING" THEN "wait_running"
    ELSE IF st # "RUNNING" THEN "crashed"
    ELSE "done"

\* _ensure_stopped, after one app.query of the while loop reported st.
_ensure_stopped(st) ==
    IF st = "STOPPING" THEN "wait_stopped"
    ELSE IF st = "STOPPED" THEN "done"
    ELSE "crashed"

\* _ensure_running: the first app.query.
AppRunningQuery ==
    /\ mod = "app" /\ pc = "ensure_running"
    /\ \E ok \in BOOLEAN, st \in AppSettle(daemon[1].state, local.polls) :
          /\ calls' = Logged("app.query", "call", NoArg, ok)
          /\ daemon' = <<[daemon[1] EXCEPT !.state = st]>>
          /\ pc' = IF ~ok THEN "crashed"
                   ELSE IF st # "RUNNING" THEN "app.start" ELSE "wait_running"
    /\ UNCHANGED <<mod, params, check_mode, info, arg, result, local, run, tn_version, mw>>

AppStart ==
    /\ mod = "app" /\ pc = "app.start"
    /\ \E ok \in BOOLEAN, st \in {"DEPLOYING", "RUNNING"} :
          /\ calls' = Logged("app.start", "job", NoArg, ok)
          /\ daemon' = IF ok THEN <<[daemon[1] EXCEPT !.state = st]>> ELSE daemon
          /\ pc' = IF ok THEN "wait_running" ELSE "crashed"
    /\ UNCHANGED <<mod, params, check_mode, info, arg, result, local, run, tn_version, mw>>

\* _ensure_running: one turn of the while loop, and what follows it.
AppWaitRunning ==
    /\ mod = "app" /\ pc = "wait_running"
    /\ \E ok \in BOOLEAN, st \in AppSettle(daemon[1].state, local.polls) :
          /\ calls' = Logged("app.query", "call", NoArg, ok)
          /\ daemon' = <<[daemon[1] EXCEPT !.state = st]>>
          /\ local' = [local EXCEPT !.polls = IF st = "DEPLOYING" THEN @ + 1 ELSE @]
          /\ pc' = IF ok THEN _ensure_running(st) ELSE "crashed"
    /\ UNCHANGED <<mod, params, check_mode, info, arg, result, run, tn_version, mw>>

\* _ensure_stopped: the first app.query, whose result is not used.
AppStoppedQuery ==
    /\ mod = "app" /\ pc = "ensure_stopped"
    /\ \E ok \in BOOLEAN, st \in AppSettle(daemon[1].state, local.polls) :
          /\ calls' = Logged("app.query", "call", NoArg, ok)
          /\ daemon' = <<[daemon[1] EXCEPT !.state = st]>>
          /\ pc' = IF ok THEN "wait_stopped" ELSE "crashed"
    /\ UNCHANGED <<mod, params, check_mode, info, arg, result, local, run, tn_version, mw>>

\* _ensure_stopped: one turn of the while loop, and what follows it.
AppWaitStopped ==
    /\ mod = "app" /\ pc = "wait_stopped"
    /\ \E ok \in BOOLEAN, st \in AppSettle(daemon[1].state, local.polls) :
          /\ calls' = Logged("app.query", "call", NoArg, ok)
          /\ daemon' = <<[daemon[1] EXCEPT !.state = st]>>
          /\ local' = [local EXCEPT !.polls = IF st = "STOPPING" THEN @ + 1 ELSE @]
          /\ pc' = IF ok THEN _ensure_stopped(st) ELSE "crashed"
    /\ UNCHANGED <<mod, params, check_mode, info, arg, result, run, tn_version, mw>>

(***************************************************************************)
(* jail.py                                                                 *)
(***************************************************************************)
JailStates == {"up", "down"}

InitJail ==
    /\ mod = "jail"
    /\ check_mode \in BOOLEAN
    /\ \E st \in {"absent", "present", "restarted", "running", "stopped"},
          rel \in {None, "13.1"} :
          params = Merge([name |-> "j1", state |-> st],
                         IF rel = None THEN NoArg ELSE [release |-> rel])
    /\ daemon \in {<<>>} \cup {<<[id |-> "j1", state |-> js]>> : js \in JailStates}

JailCreateArg == [uuid |-> params.name, release |-> params.release]

\* The jail exists and is not to be deleted.  Nothing is ever put in arg,
\* and the test for 'running' compares two string literals.
JailExistsPlan(jail_info) ==
    IF "state" = "running"
    THEN IF jail_info.state = "up" THEN Plan("done", NoArg, FALSE)
         ELSE Mutation("jail.start", NoArg)
    ELSE IF params.state = "stopped"
    THEN IF jail_info.state = "up" THEN Mutation("jail.stop", NoArg)
         ELSE Plan("done", NoArg, FALSE)
    ELSE IF params.state = "restarted" THEN Mutation("jail.restart", NoArg)
    ELSE Plan("done", NoArg, FALSE)

JailPlan(jail_info) ==
    IF jail_info = <<>>
    THEN IF params.state = "absent" THEN Plan("done", NoArg, FALSE)
         ELSE IF ~Has(params, "release") THEN Plan("failed", NoArg, FALSE)
         ELSE Mutation("jail.create", JailCreateArg)
    ELSE IF params.state = "absent"
         THEN IF jail_info[1].state = "up" THEN Mutation("jail.stop", NoArg)
              ELSE Mutation("jail.delete", NoArg)
         ELSE JailExistsPlan(jail_info[1])

JailQuery ==
    /\ mod = "jail" /\ pc = "start"
    /\ \E ok \in BOOLEAN :
          /\ calls' = Logged("jail.query", "call", NoArg, ok)
          /\ IF ok
             THEN /\ info' = daemon
                  /\ Follow(JailPlan(daemon))
             ELSE /\ info' = info
                  /\ Follow(Plan("failed", arg, result.changed))
    /\ UNCHANGED <<mod, params, check_mode, daemon, local, run, tn_version, mw>>

\* A new jail is down; it is started unless state is present or stopped.
JailCreate ==
    /\ mod = "jail" /\ pc = "jail.create"
    /\ \E ok \in BOOLEAN :
          /\ calls' = Logged("jail.create", "job", arg, ok)
          /\ daemon' = IF ok THEN <<[id |-> arg.uuid, state |-> "down"]>> ELSE daemon
          /\ Follow(IF ~ok THEN Plan("failed", arg, result.changed)
                    ELSE IF params.state \in {"present", "stopped"}
                    THEN Plan("done", arg, TRUE)
                    ELSE Plan("jail.start", arg, FALSE))
    /\ UNCHANGED <<mod, params, check_mode, info, local, run, tn_version, mw>>

JailStart ==
    /\ mod = "jail" /\ pc = "jail.start"
    /\ \E ok \in BOOLEAN :
          /\ calls' = Logged("jail.start", "job", NoArg, ok)
          /\ daemon' = IF ok THEN <<[daemon[1] EXCEPT !.state = "up"]>> ELSE daemon
          /\ Follow(Plan(IF ok THEN "done" ELSE "failed", arg, ok))
    /\ UNCHANGED <<mod, params, check_mode, info, local, run, tn_version, mw>>

\* Stopping a jail: on the way to deleting it, or because state is stopped.
JailStop ==
    /\ mod = "jail" /\ pc = "jail.stop"
    /\ \E ok \in BOOLEAN :
          /\ calls' = Logged("jail.stop", "job", NoArg, ok)
          /\ daemon' = IF ok THEN <<[daemon[1] EXCEPT !.state = "down"]>> ELSE daemon
          /\ Follow(IF ~ok THEN Plan("failed", arg, result.changed)
                    ELSE IF params.state = "absent" THEN Plan("jail.delete", arg, FALSE)
                    ELSE Plan("done", arg, TRUE))
    /\ UNCHANGED <<mod, params, check_mode, info, local, run, tn_version, mw>>

JailDelete ==
    /\ mod = "jail" /\ pc = "jail.delete"
    /\ \E ok \in BOOLEAN :
          /\ calls' = Logged("jail.delete", "call", NoArg, ok)
          /\ daemon' = IF ok THEN <<>> ELSE daemon
          /\ Follow(Plan(IF ok THEN "done" ELSE "failed", arg, ok))
    /\ UNCHANGED <<mod, params, check_mode, info, local, run, tn_version, mw>>

JailRestart ==
    /\ mod = "jail" /\ pc = "jail.restart"
    /\ \E ok \in BOOLEAN :
          /\ calls' = Logged("jail.restart", "job", NoArg, ok)
          /\ daemon' = IF ok THEN <<[daemon[1] EXCEPT !.state = "up"]>> ELSE daemon
          /\ Follow(Plan(IF ok THEN "done" ELSE "failed", arg, ok))
    /\ UNCHANGED <<mod, params, check_mode, info, local, run, tn_version, mw>>

(***************************************************************************)
(* plugin.py                                                               *)
(***************************************************************************)
\* The task names both the repository URL and the plugin id, so that
\* lookup_plugin() returns them without asking the daemon.
InitPlugin ==
    /\ mod = "plugin"
    /\ check_mode \in BOOLEAN
    /\ \E st \in {"absent", "present"} :
          params = [jail |-> "j1", plugin_id |-> "bind", state |-> st,
                    repository_url |-> "url"]
    /\ daemon \in {<<>>} \cup {<<[id |-> "j1", state |-> js]>> : js \in JailStates}

lookup_plugin == <<params.repository_url, params.plugin_id>>

PluginCreateArg ==
    [jail_name |-> params.jail, plugin_repository |-> lookup_plugin[1],
     plugin_name |-> lookup_plugin[2]]

PluginPlan(plugin_info) ==
    IF plugin_info = <<>>
    THEN IF params.state = "present" THEN Mutation("plugin.create", PluginCreateArg)
         ELSE Plan("done", NoArg, FALSE)
    ELSE IF params.state = "present" THEN Plan("done", NoArg, FALSE)
         ELSE Mutation("plugin.delete", NoArg)

PluginQuery ==
    /\ mod = "plugin" /\ pc = "start"
    /\ \E ok \in BOOLEAN :
          /\ calls' = Logged("plugin.query", "call", NoArg, ok)
          /\ IF ok
             THEN /\ info' = daemon
                  /\ Follow(PluginPlan(daemon))
             ELSE /\ info' = info
                  /\ Follow(Plan("failed", arg, result.changed))
    /\ UNCHANGED <<mod, params, check_mode, daemon, local, run, tn_version, mw>>

PluginCreate ==
    /\ mod = "plugin" /\ pc = "plugin.create"
    /\ \E ok \in BOOLEAN :
          /\ calls' = Logged("plugin.create", "call", arg, ok)
          /\ daemon' = IF ok THEN <<[id |-> arg.jail_name, state |-> "up"]>> ELSE daemon
          /\ Follow(Plan(IF ok THEN "done" ELSE "failed", arg, ok))
    /\ UNCHANGED <<mod, params, check_mode, info, local, run, tn_version, mw>>

\* plugin.delete is sent whatever the state of the plugin's jail.
PluginDelete ==
    /\ mod = "plugin" /\ pc = "plugin.delete"
    /\ \E ok \in BOOLEAN :
          /\ calls' = Logged("plugin.delete", "call", NoArg, ok)
          /\ daemon' = IF ok THEN <<>> ELSE daemon
          /\ Follow(Plan(IF ok THEN "done" ELSE "failed", arg, ok))
    /\ UNCHANGED <<mod, params, check_mode, info, local, run, tn_version, mw>>

(***************************************************************************)
(* jail_fstab.py                                                           *)
(***************************************************************************)
\* An fstab entry as jail.fstab LIST returns it:
\* [src, mount, fstype, options, dump, fsck_pass].
Entry(src, mount, options) == <<src, mount, "nullfs", options, 0, 0>>

\* An element of the fstab parameter, after the defaults of its
\* sub-options; mount is absolute, so mount_full is mount.
Fs(src, mount, options, state) ==
    Merge([mount |-> mount, mount_full |-> mount, fstype |-> "nullfs",
           options |-> options, dump |-> 0, fsck_pass |-> 0, state |-> state],
          IF src = None THEN NoArg ELSE [src |-> src])

FstabParamChoices ==
    {<<>>,
     <<Fs("/mnt/a", "/data", "ro", "present")>>,
     <<Fs("/mnt/a", "/data", "rw", "present")>>,
     <<Fs(None, "/data", "ro", "absent")>>,
     <<Fs("/mnt/a", "/data", "ro", "present"), Fs("/mnt/c", "/other", "ro", "present")>>}

FstabInfoChoices ==
    {<<>>,
     <<Entry("/mnt/a", "/data", "ro")>>,
     <<Entry("/mnt/b", "/data", "ro")>>,
     <<Entry("/mnt/a", "/data", "ro"), Entry("/mnt/c", "/other", "ro")>>}

InitJailFstab ==
    /\ mod = "jail_fstab"
    /\ check_mode \in BOOLEAN
    /\ \E f \in FstabParamChoices, ap \in BOOLEAN :
          params = [jail |-> "j1", fstab |-> f, append |-> ap]
    /\ daemon \in {<<>>} \cup
                  {<<[id |-> "j1", state |-> js, fstab |-> fi]>> :
                      js \in JailStates, fi \in FstabInfoChoices}

\* next(v['entry'] ... if v['entry'][1] == fs['mount_full']), or None as <<>>.
FstabFind(fstab_info, mount_full) ==
    IF \E i \in DOMAIN fstab_info : fstab_info[i][2] = mount_full
    THEN fstab_info[CHOOSE i \in DOMAIN fstab_info :
                       /\ fstab_info[i][2] = mount_full
                       /\ \A j \in 1..(i - 1) : fstab_info[j][2] # mount_full]
    ELSE <<>>

FstabChangeFields(entry, fs) ==
    Merge(Merge(Merge(Merge(
        IF entry[1] # fs.src THEN [source |-> fs.src] ELSE NoArg,
        IF entry[3] # fs.fstype THEN [fstype |-> fs.fstype] ELSE NoArg),
        IF entry[4] # fs.options THEN [fsoptions |-> fs.options] ELSE NoArg),
        IF entry[5] # fs.dump THEN [dump |-> fs.dump] ELSE NoArg),
        IF entry[6] # fs.fsck_pass THEN [pass |-> fs.fsck_pass] ELSE NoArg)

\* The changes one element of the fstab parameter queues: none or one.
FstabChangesFor(fstab_info, fs) ==
    LET entry == FstabFind(fstab_info, fs.mount_full)
    IN  IF entry = <<>>
        THEN IF fs.state = "absent" THEN <<>>
             ELSE <<[action |-> "add", entry |-> None]>>
        ELSE IF fs.state = "absent"
             THEN <<[action |-> "remove", entry |-> entry]>>
             ELSE IF DOMAIN FstabChangeFields(entry, fs) # {}
                  THEN <<[action |-> "replace", entry |-> entry,
                          fields |-> FstabChangeFields(entry, fs)]>>
                  ELSE <<>>

RECURSIVE FstabListed(_, _)
FstabListed(fstab_info, fstab) ==
    IF fstab = <<>> THEN <<>>
    ELSE FstabChangesFor(fstab_info, Head(fstab)) \o FstabListed(fstab_info, Tail(fstab))

\* With append false, entries of the jail that the task does not list.
RECURSIVE FstabExtra(_, _)
FstabExtra(fstab_info, listed_mounts) ==
    IF fstab_info = <<>> THEN <<>>
    ELSE (IF Head(fstab_info)[2] \notin listed_mounts
          THEN <<[action |-> "remove", entry |-> Head(fstab_info)]>> ELSE <<>>)
         \o FstabExtra(Tail(fstab_info), listed_mounts)

FstabChanges(fstab_info) ==
    FstabListed(fstab_info, params.fstab)
    \o (IF params.append THEN <<>>
        ELSE FstabExtra(fstab_info, {params.fstab[i].mount_full : i \in DOMAIN params.fstab}))

\* get_iocroot(): an error is swallowed and None returned.
JailFstabIocroot ==
    /\ mod = "jail_fstab" /\ pc = "start"
    /\ \E ok \in BOOLEAN :
          calls' = Logged("jail.get_iocroot", "call", NoArg, ok)
    /\ pc' = "jail.query"
    /\ local' = [changes |-> <<>>]
    /\ UNCHANGED <<mod, params, check_mode, daemon, info, arg, result, run, tn_version, mw>>

JailFstabQuery ==
    /\ mod = "jail_fstab" /\ pc = "jail.query"
    /\ \E ok \in BOOLEAN :
          /\ calls' = Logged("jail.query", "call", NoArg, ok)
          /\ info' = IF ok THEN daemon ELSE info
          /\ pc' = IF ok /\ daemon # <<>> THEN "jail.fstab" ELSE "failed"
    /\ UNCHANGED <<mod, params, check_mode, daemon, arg, result, local, run, tn_version, mw>>

\* jail.fstab LIST, the list of changes, and the decision to stop the jail.
JailFstabList ==
    /\ mod = "jail_fstab" /\ pc = "jail.fstab"
    /\ \E ok \in BOOLEAN :
          LET changes == FstabChanges(daemon[1].fstab)
          IN  /\ calls' = Logged("jail.fstab", "call", [action |-> "LIST"], ok)
              /\ local' = [local EXCEPT !.changes = IF ok THEN changes ELSE @]
              /\ Follow(IF ~ok THEN Plan("failed", arg, result.changed)
                        ELSE IF changes = <<>> THEN Plan("done", arg, FALSE)
                        ELSE IF info[1].state = "up" /\ ~check_mode
                        THEN Plan("jail.stop", arg, TRUE)
                        ELSE Plan("apply", arg, TRUE))
    /\ UNCHANGED <<mod, params, check_mode, daemon, info, run, tn_version, mw>>

JailFstabStop ==
    /\ mod = "jail_fstab" /\ pc = "jail.stop"
    /\ \E ok \in BOOLEAN :
          /\ calls' = Logged("jail.stop", "job", NoArg, ok)
          /\ daemon' = IF ok THEN <<[daemon[1] EXCEPT !.state = "down"]>> ELSE daemon
          /\ pc' = IF ok THEN "apply" ELSE "failed"
    /\ UNCHANGED <<mod, params, check_mode, info, arg, result, local, run, tn_version, mw>>

\* What the loop that applies the changes raises at a change: the entry of
\* an "add" is None (TypeError), a "remove" has no 'fields' (KeyError), and
\* the 'fields' of a "replace" are iterated as pairs, which the names of the
\* fields are not (ValueError).
FstabApplyError(change) ==
    IF change.entry = None THEN "TypeError"
    ELSE IF ~Has(change, "fields") THEN "KeyError"
    ELSE IF \E k \in DOMAIN change.fields : Len(k) # 2 THEN "ValueError"
    ELSE "none"

\* The loop issues no call, and ends at its first change with an exception
\* that nothing catches; the code after the loop, which would start the
\* jail again, is not reached.
JailFstabApply ==
    /\ mod = "jail_fstab" /\ pc = "apply"
    /\ FstabApplyError(Head(local.changes)) # "none"
    /\ pc' = "crashed"
    /\ UNCHANGED <<mod, params, check_mode, daemon, info, arg, calls, result, local, run, tn_version, mw>>

(***************************************************************************)
(* filesystem.py                                                           *)
(***************************************************************************)
FsVolsizes == {1024, 2048}

\* str() of a volsize.
Str(n) == IF n = 1024 THEN "1024" ELSE IF n = 2048 THEN "2048" ELSE "0"

\* str.lower() on the strings that occur.
Lower(str) ==
    IF str = "LZ4" THEN "lz4" ELSE IF str = "ZSTD" THEN "zstd"
    ELSE IF str = "ON" THEN "on" ELSE IF str = "OFF" THEN "off"
    ELSE IF str = "C1" THEN "c1" ELSE str

lower_enums ==
    {"on", "off", "inherit", "standard", "always", "disabled", "visible",
     "hidden", "lz4", "zstd", "nfsv4", "posix", "restricted", "passthrough",
     "discard", "verify"}

\* The properties of either type that the model follows, of the 25 of
\* updatable_props.
updatable_props == {"compression", "comments"}

\* A task sets the options of a volume or the properties of a dataset.
InitFilesystem ==
    /\ mod = "filesystem"
    /\ check_mode \in BOOLEAN
    /\ \E st \in {"absent", "present"}, ty \in {"FILESYSTEM", "VOLUME"},
          vs \in {0} \cup FsVolsizes, vb \in {None, "16K", "32K"},
          sp \in {None, "yes", "no"}, fo \in BOOLEAN,
          co \in {None, "lz4", "LZ4", "zstd"}, cm \in {None, "c1", "C1"} :
          /\ st = "absent" => ty = "FILESYSTEM"
          /\ (st = "absent" \/ ty = "FILESYSTEM") =>
                vs = 0 /\ vb = None /\ sp = None /\ ~fo
          /\ (st = "absent" \/ ty = "VOLUME") => co = None /\ cm = None
          /\ params =
               Merge(Merge(Merge(Merge(Merge(
                 [name |-> "tank/d", state |-> st, type |-> ty, force_size |-> fo,
                  create_ancestors |-> FALSE],
                 IF vs = 0 THEN NoArg ELSE [volsize |-> vs]),
                 IF vb = None THEN NoArg ELSE [volblocksize |-> vb]),
                 IF sp = None THEN NoArg ELSE [sparse |-> (sp = "yes")]),
                 IF co = None THEN NoArg ELSE [compression |-> co]),
                 IF cm = None THEN NoArg ELSE [comments |-> cm])
    /\ daemon \in
         {<<>>,
          <<[name |-> "tank/d", type |-> "FILESYSTEM", props |-> [compression |-> "LZ4"]]>>,
          <<[name |-> "tank/d", type |-> "FILESYSTEM",
             props |-> [compression |-> "ZSTD", comments |-> "c1"]]>>,
          <<[name |-> "tank/d", type |-> "VOLUME",
             props |-> [volsize |-> "1024", volblocksize |-> "16K", sparse |-> "false"]]>>,
          <<[name |-> "tank/d", type |-> "VOLUME",
             props |-> [volsize |-> "2048", volblocksize |-> "32K", sparse |-> "ON"]]>>}

\* dataset_entry[prop_name]['rawvalue'], or None.
prop_rawvalue(dataset_entry, prop_name) ==
    IF Has(dataset_entry.props, prop_name) THEN dataset_entry.props[prop_name] ELSE None

\* current_str.lower() of a current_str that is None raises AttributeError.
compare_prop_raises(current_str) == current_str = None

compare_prop(prop_name, desired_val, current_str) ==
    IF Lower(desired_val) \in lower_enums \/ Lower(current_str) \in lower_enums
    THEN Lower(desired_val) = Lower(current_str)
    ELSE desired_val = current_str

same_value_bool(desired_bool, current_str) ==
    LET d_str == IF desired_bool THEN "true" ELSE "false"
        c_low == IF current_str = None THEN "" ELSE Lower(current_str)
        c_str == IF c_low \in {"on", "1"} THEN "true"
                 ELSE IF c_low \in {"off", "0"} THEN "false" ELSE c_low
    IN  d_str = c_str

build_create_args ==
    Merge(Merge([name |-> params.name, type |-> params.type,
                 create_ancestors |-> params.create_ancestors],
                IF params.type = "VOLUME"
                THEN Restrict(params, {"volsize", "volblocksize", "sparse", "force_size"})
                ELSE NoArg),
          Restrict(params, updatable_props))

\* The part of build_update_args for a volume; volblocksize is not looked at.
FsVolumeUpdateArgs(existing_ds) ==
    IF existing_ds.type # "VOLUME" THEN NoArg
    ELSE Merge(Merge(
           IF Has(params, "volsize") /\ Str(params.volsize) # prop_rawvalue(existing_ds, "volsize")
           THEN [volsize |-> params.volsize] ELSE NoArg,
           IF Has(params, "sparse")
              /\ ~same_value_bool(params.sparse, prop_rawvalue(existing_ds, "sparse"))
           THEN [sparse |-> params.sparse] ELSE NoArg),
           [force_size |-> params.force_size])

FsPropUpdateArgs(existing_ds) ==
    Restrict(params,
             {prop \in updatable_props :
                 /\ Has(params, prop)
                 /\ ~compare_prop(prop, params[prop], prop_rawvalue(existing_ds, prop))})

build_update_args(existing_ds) ==
    Merge(FsVolumeUpdateArgs(existing_ds), FsPropUpdateArgs(existing_ds))

build_update_args_raises(existing_ds) ==
    \E prop \in updatable_props :
        Has(params, prop) /\ compare_prop_raises(prop_rawvalue(existing_ds, prop))

FilesystemPlan(existing) ==
    IF params.state = "absent"
    THEN IF existing = <<>> THEN Plan("done", NoArg, FALSE)
         ELSE Mutation("pool.dataset.delete", [recursive |-> TRUE])
    ELSE IF existing = <<>>
    THEN IF params.type = "VOLUME" /\ ~Has(params, "volsize")
         THEN Plan("failed", NoArg, FALSE)
         ELSE Mutation("pool.dataset.create", build_create_args)
    ELSE IF build_update_args_raises(existing[1]) THEN Plan("crashed", NoArg, FALSE)
    ELSE IF DOMAIN build_update_args(existing[1]) = {} THEN Plan("done", NoArg, FALSE)
    ELSE Mutation("pool.dataset.update", build_update_args(existing[1]))

FilesystemQuery ==
    /\ mod = "filesystem" /\ pc = "start"
    /\ \E ok \in BOOLEAN :
          /\ calls' = Logged("pool.dataset.query", "call", NoArg, ok)
          /\ IF ok
             THEN /\ info' = daemon
                  /\ Follow(FilesystemPlan(daemon))
             ELSE /\ info' = info
                  /\ Follow(Plan("failed", arg, result.changed))
    /\ UNCHANGED <<mod, params, check_mode, daemon, local, run, tn_version, mw>>

\* The rawvalues the daemon reports for the properties it was sent.
FsStored(a) ==
    [k \in (DOMAIN a) \cap ({"volsize", "volblocksize", "sparse"} \cup updatable_props) |->
        IF k = "volsize" THEN Str(a[k])
        ELSE IF k = "sparse" THEN (IF a[k] THEN "true" ELSE "false")
        ELSE a[k]]

FilesystemCreate ==
    /\ mod = "filesystem" /\ pc = "pool.dataset.create"
    /\ \E ok \in BOOLEAN :
          /\ calls' = Logged("pool.dataset.create", "call", arg, ok)
          /\ daemon' = IF ok
                       THEN <<[name |-> arg.name, type |-> arg.type, props |-> FsStored(arg)]>>
                       ELSE daemon
          /\ Follow(Plan(IF ok THEN "done" ELSE "failed", arg, ok))
    /\ UNCHANGED <<mod, params, check_mode, info, local, run, tn_version, mw>>

FilesystemUpdate ==
    /\ mod = "filesystem" /\ pc = "pool.dataset.update"
    /\ \E ok \in BOOLEAN :
          /\ calls' = Logged("pool.dataset.update", "call", arg, ok)
          /\ daemon' = IF ok
                       THEN <<[daemon[1] EXCEPT !.props = Merge(@, FsStored(arg))]>>
                       ELSE daemon
          /\ Follow(Plan(IF ok THEN "done" ELSE "failed", arg, ok))
    /\ UNCHANGED <<mod, params, check_mode, info, local, run, tn_version, mw>>

FilesystemDelete ==
    /\ mod = "filesystem" /\ pc = "pool.dataset.delete"
    /\ \E ok \in BOOLEAN :
          /\ calls' = Logged("pool.dataset.delete", "call", arg, ok)
          /\ daemon' = IF ok THEN <<>> ELSE daemon
          /\ Follow(Plan(IF ok THEN "done" ELSE "failed", arg, ok))
    /\ UNCHANGED <<mod, params, check_mode, info, local, run, tn_version, mw>>

(***************************************************************************)
(* setup.py and user.py                                                    *)
(***************************************************************************)
\* A version number is its release segments, compared segment by segment.
VLt(v, w) ==
    \E i \in 1..3 : v[i] < w[i] /\ \A j \in 1..(i - 1) : v[j] = w[j]

VGe(v, w) == ~VLt(v, w)

TnVersions ==
    {[name |-> "TrueNAS", type |-> "CORE", version |-> <<13, 0, 0>>],
     [name |-> "TrueNAS", type |-> "SCALE", version |-> <<22, 12, 0>>],
     [name |-> "TrueNAS", type |-> "SCALE", version |-> <<22, 12, 3>>],
     [name |-> "TrueNAS", type |-> "SCALE", version |-> <<23, 10, 0>>],
     [name |-> "TrueNAS", type |-> "SCALE_ENTERPRISE", version |-> <<23, 10, 0>>]}

\* setup.tn_version before get_tn_version() has stored a result.
NoVersion == [name |-> None, type |-> None, version |-> <<>>]

\* The test of main() as Python groups it: A and B and (C) or (D) or E.
old_sudo_api(v) ==
    ~(\/ /\ v.name = "TrueNAS"
         /\ v.type = "SCALE"
         /\ VGe(v.version, <<12, 12, 0>>)
         /\ VLt(v.version, <<13, 0, 0>>)
      \/ /\ VGe(v.version, <<22, 12, 1>>)
         /\ VLt(v.version, <<23, 0, 0>>)
      \/ VGe(v.version, <<23, 10, 0>>))

old_sudo_call ==
    old_sudo_api(tn_version) /\ (Has(params, "sudo") \/ Has(params, "sudo_nopasswd"))

\* sudo command lists a task gives.
SudoLists ==
    {<<>>, <<"a">>, <<"a", "b">>, <<"b", "a">>, <<"ALL">>, <<"ALL", "a">>}

UserBase(st) ==
    [name |-> "bob", state |-> st, password |-> "", create_group |-> TRUE,
     append |-> FALSE, delete_group |-> TRUE]

Opt(k, v) == IF v = None THEN NoArg ELSE [x \in {k} |-> v]

OptBool(k, v) == IF v = None THEN NoArg ELSE [x \in {k} |-> (v = "yes")]

OptList(k, v) == IF v = <<None>> THEN NoArg ELSE [x \in {k} |-> v]

\* Tasks that set the plain fields.
UserPlainParams ==
    {Merge(Merge(Merge(Merge(UserBase("present"),
        IF u = 0 THEN NoArg ELSE [uid |-> u]), Opt("comment", c)), Opt("shell", sh)),
        OptBool("password_disabled", pd)) :
       u \in {0, 1001, 1002}, c \in {None, "Bob", "Rob"}, sh \in {None, "/bin/sh"},
       pd \in {None, "yes", "no"}}

\* Tasks that set the supplementary groups.
UserGroupParams ==
    {Merge([UserBase("present") EXCEPT !.append = ap], [groups |-> g]) :
       g \in ListsOver({"g1", "g2", "g3"}), ap \in BOOLEAN}

\* Tasks that set the sudo options.  With the old sudo API the module takes
\* sudo and sudo_nopasswd, and sudo_commands and sudo_commands_nopasswd
\* are mutually exclusive.
UserSudoParams(old) ==
    LET flags == IF old THEN {None, "yes", "no"} ELSE {None}
        lists == {<<None>>} \cup SudoLists
        legal == {t \in flags \X flags \X lists \X lists :
                     old => (t[3] = <<None>> \/ t[4] = <<None>>)}
    IN  {Merge(Merge(Merge(Merge(UserBase("present"),
            OptBool("sudo", t[1])), OptBool("sudo_nopasswd", t[2])),
            OptList("sudo_commands", t[3])), OptList("sudo_commands_nopasswd", t[4])) :
           t \in legal}

UserRecord ==
    [id |-> 37, uid |-> 1001, username |-> "bob", full_name |-> "Bob",
     shell |-> "/bin/sh", password_disabled |-> FALSE, groups |-> <<>>]

\* user.query reports sudo, sudo_nopasswd and sudo_commands with the old
\* sudo API, sudo_commands and sudo_commands_nopasswd with the new one.
UserNoSudo(old) ==
    IF old THEN [sudo |-> FALSE, sudo_nopasswd |-> FALSE, sudo_commands |-> <<>>]
    ELSE [sudo_commands |-> <<>>, sudo_commands_nopasswd |-> <<>>]

UserSudoObserved(old) ==
    IF old
    THEN {UserNoSudo(old),
          [sudo |-> TRUE, sudo_nopasswd |-> FALSE, sudo_commands |-> <<"b", "a">>],
          [sudo |-> TRUE, sudo_nopasswd |-> TRUE, sudo_commands |-> <<"a">>],
          [sudo |-> TRUE, sudo_nopasswd |-> TRUE, sudo_commands |-> <<>>]}
    ELSE {UserNoSudo(old),
          [sudo_commands |-> <<"b", "a">>, sudo_commands_nopasswd |-> <<>>],
          [sudo_commands |-> <<>>, sudo_commands_nopasswd |-> <<"a", "b">>]}

\* The inputs vary one family of options at a time.
InitUser ==
    /\ mod = "user"
    /\ check_mode \in BOOLEAN
    /\ tn_version \in {NoVersion} \cup TnVersions
    /\ LET old == tn_version = NoVersion \/ old_sudo_api(tn_version)
           plain == Merge(UserRecord, UserNoSudo(old))
       IN  \/ /\ params \in {UserBase("absent")} \cup UserPlainParams
              /\ daemon \in {<<>>, <<plain>>}
           \/ /\ params \in UserGroupParams
              /\ daemon \in {<<>>} \cup
                   {<<[plain EXCEPT !.groups = g]>> : g \in {<<>>, <<41, 42>>, <<42, 41>>}}
           \/ /\ params \in UserSudoParams(old)
              /\ daemon \in {<<>>} \cup
                   {<<Merge(UserRecord, x)>> : x \in UserSudoObserved(old)}

\* The ids group.query returns for a list of group names.
GroupIds(groups) ==
    {IF groups[i] = "g1" THEN 41 ELSE IF groups[i] = "g2" THEN 42 ELSE 43 :
        i \in DOMAIN groups}

\* list(a set), in some order.
SeqOf(set) == CHOOSE q \in [1..Cardinality(set) -> set] : ToSet(q) = set

\* [] if 'ALL' in commands else commands
SudoWant(commands) == IF "ALL" \in ToSet(commands) THEN <<>> ELSE commands

\* The sudo part of arg for user.create.
UserCreateSudo ==
    IF old_sudo_call
    THEN Restrict(params, {"sudo", "sudo_nopasswd", "sudo_commands"})
    ELSE IF old_sudo_api(tn_version)
    THEN IF ~Has(params, "sudo_commands")
         THEN IF ~Has(params, "sudo_commands_nopasswd") THEN NoArg
              ELSE [sudo |-> TRUE, sudo_nopasswd |-> TRUE,
                    sudo_commands |-> SudoWant(params.sudo_commands_nopasswd)]
         ELSE IF ~Has(params, "sudo_commands_nopasswd")
              THEN [sudo |-> TRUE, sudo_nopasswd |-> FALSE,
                    sudo_commands |-> SudoWant(params.sudo_commands)]
              ELSE NoArg
    ELSE IF Has(params, "sudo_commands_nopasswd")
         THEN [sudo_commands |->
                  IF Has(params, "sudo_commands") THEN params.sudo_commands ELSE <<None>>]
         ELSE Restrict(params, {"sudo_commands"})

UserCreateArg(want_groupset) ==
    Merge(Merge(Merge(
        [username |-> params.name, password |-> params.password,
         full_name |-> IF Has(params, "comment") THEN params.comment ELSE "",
         group_create |-> TRUE],
        Restrict(params, {"password_disabled", "uid", "shell"})),
        UserCreateSudo),
        IF want_groupset = {} THEN NoArg ELSE [groups |-> want_groupset])

\* if X is not None and user_info[key] != X: arg[key] = X
UserFieldDiff(user_info) ==
    Merge(Merge(Merge(
        IF Has(params, "uid") /\ user_info.uid # params.uid
        THEN [uid |-> params.uid] ELSE NoArg,
        IF Has(params, "password_disabled")
           /\ user_info.password_disabled # params.password_disabled
        THEN [password_disabled |-> params.password_disabled] ELSE NoArg),
        IF Has(params, "comment") /\ user_info.full_name # params.comment
        THEN [full_name |-> params.comment] ELSE NoArg),
        IF Has(params, "shell") /\ user_info.shell # params.shell
        THEN [shell |-> params.shell] ELSE NoArg)

\* Old-style call: the lists are compared as lists.
UserOldCallDiff(user_info) ==
    Merge(Merge(
        IF Has(params, "sudo") /\ user_info.sudo # params.sudo
        THEN [sudo |-> params.sudo] ELSE NoArg,
        IF Has(params, "sudo_nopasswd") /\ user_info.sudo_nopasswd # params.sudo_nopasswd
        THEN [sudo_nopasswd |-> params.sudo_nopasswd] ELSE NoArg),
        IF Has(params, "sudo_commands") /\ user_info.sudo_commands # params.sudo_commands
        THEN [sudo_commands |-> params.sudo_commands] ELSE NoArg)

\* want_sudo, want_sudo_nopasswd, want_sudo_commands; none when the task
\* has no opinion.
UserWant ==
    IF ~Has(params, "sudo_commands")
    THEN IF ~Has(params, "sudo_commands_nopasswd") THEN NoArg
         ELSE [sudo |-> TRUE, sudo_nopasswd |-> TRUE,
               sudo_commands |-> SudoWant(params.sudo_commands_nopasswd)]
    ELSE IF ~Has(params, "sudo_commands_nopasswd")
         THEN [sudo |-> TRUE, sudo_nopasswd |-> FALSE,
               sudo_commands |-> SudoWant(params.sudo_commands)]
         ELSE NoArg

\* New-style call with the old sudo API.
UserOldApiDiff(user_info) ==
    LET want == UserWant
    IN  IF DOMAIN want = {} THEN NoArg
        ELSE Merge(Merge(
               IF user_info.sudo # want.sudo THEN [sudo |-> want.sudo] ELSE NoArg,
               IF user_info.sudo_nopasswd # want.sudo_nopasswd
               THEN [sudo_nopasswd |-> want.sudo_nopasswd] ELSE NoArg),
               IF ToSet(user_info.sudo_commands) # ToSet(want.sudo_commands)
               THEN [sudo_commands |-> want.sudo_commands] ELSE NoArg)

\* New-style call with the new sudo API: set comparison.
UserNewApiDiff(user_info) ==
    Restrict(params,
             {k \in {"sudo_commands", "sudo_commands_nopasswd"} :
                 Has(params, k) /\ ToSet(user_info[k]) # ToSet(params[k])})

UserSudoDiff(user_info) ==
    IF old_sudo_call THEN UserOldCallDiff(user_info)
    ELSE IF old_sudo_api(tn_version) THEN UserOldApiDiff(user_info)
    ELSE UserNewApiDiff(user_info)

\* The supplementary groups, compared as sets of ids.
UserGroupsDiff(user_info, want_groupset) ==
    IF ~Has(params, "groups") THEN NoArg
    ELSE LET nas_groupset == ToSet(user_info.groups)
             final_groupset == IF params.append THEN want_groupset \cup nas_groupset
                               ELSE want_groupset
         IN  IF final_groupset # nas_groupset THEN [groups |-> final_groupset] ELSE NoArg

UserUpdateArg(user_info, want_groupset) ==
    Merge(Merge(UserFieldDiff(user_info), UserSudoDiff(user_info)),
          UserGroupsDiff(user_info, want_groupset))

\* What main() does once it has the ids of the groups of the task.
UserPlan(user_info, want_groupset) ==
    IF user_info = <<>>
    THEN Mutation("user.create", UserCreateArg(want_groupset))
    ELSE LET a == UserUpdateArg(user_info[1], want_groupset)
         IN  IF DOMAIN a = {} THEN Plan("done", a, FALSE)
             ELSE Mutation("user.update", a)

\* The calls of get_tn_version() when nothing is memoized: the product type,
\* the version and, on CORE, the product name, up to the first that fails.
VersionCalls(ok1, ok2, core, ok3) ==
    <<Call("system.product_type", "call", NoArg, ok1)>>
    \o (IF ok1 THEN <<Call("system.version", "call", NoArg, ok2)>> ELSE <<>>)
    \o (IF ok1 /\ ok2 /\ core
        THEN <<Call("system.product_name", "call", NoArg, ok3)>> ELSE <<>>)

\* setup.get_tn_version() as main() calls it.  A memoized result is
\* returned as it is.  Otherwise the version string is split into a list,
\* which re.match() does not take: the TypeError, like an error of the
\* daemon, makes main() print a failure and exit.
UserVersion ==
    /\ mod = "user" /\ pc = "start"
    /\ IF tn_version # NoVersion
       THEN /\ pc' = "user.query"
            /\ calls' = calls
       ELSE /\ pc' = "failed"
            /\ \E ok1, ok2, core, ok3 \in BOOLEAN :
                  calls' = calls \o VersionCalls(ok1, ok2, core, ok3)
    /\ UNCHANGED <<mod, params, check_mode, daemon, info, arg, result, local, run, tn_version, mw>>

\* The user lookup.  When the task names groups, their ids are looked up
\* before anything else is sent.
UserQuery ==
    /\ mod = "user" /\ pc = "user.query"
    /\ \E ok \in BOOLEAN :
          /\ calls' = Logged("user.query", "call", NoArg, ok)
          /\ IF ~ok
             THEN /\ info' = info
                  /\ Follow(Plan("failed", arg, result.changed))
             ELSE /\ info' = daemon
                  /\ Follow(
                       IF params.state = "absent"
                       THEN IF daemon = <<>> THEN Plan("done", NoArg, FALSE)
                            ELSE Mutation("user.delete",
                                          [delete_group |-> params.delete_group])
                       ELSE IF Has(params, "groups") /\ params.groups # <<>>
                       THEN Plan("group.query", NoArg, FALSE)
                       ELSE UserPlan(daemon, {}))
    /\ UNCHANGED <<mod, params, check_mode, daemon, local, run, tn_version, mw>>

UserGroupQuery ==
    /\ mod = "user" /\ pc = "group.query"
    /\ \E ok \in BOOLEAN :
          /\ calls' = Logged("group.query", "call", NoArg, ok)
          /\ Follow(IF ok THEN UserPlan(info, GroupIds(params.groups))
                    ELSE Plan("failed", arg, result.changed))
    /\ UNCHANGED <<mod, params, check_mode, daemon, info, local, run, tn_version, mw>>

\* The record user.query returns for a user made or changed with a.
UserStored(a) ==
    LET kept == Restrict(a, {k \in DOMAIN UserRecord \cup
                                    {"sudo", "sudo_nopasswd", "sudo_commands",
                                     "sudo_commands_nopasswd"} :
                                Has(a, k) /\ (k = "sudo_commands" => a[k] # <<None>>)})
    IN  [k \in DOMAIN kept |-> IF k = "groups" THEN SeqOf(kept[k]) ELSE kept[k]]

UserCreate ==
    /\ mod = "user" /\ pc = "user.create"
    /\ \E ok \in BOOLEAN :
          /\ calls' = Logged("user.create", "call", arg, ok)
          /\ daemon' = IF ok
                       THEN <<Merge(Merge([UserRecord EXCEPT !.full_name = ""],
                                          UserNoSudo(old_sudo_api(tn_version))),
                                    UserStored(arg))>>
                       ELSE daemon
          /\ Follow(Plan(IF ok THEN "done" ELSE "failed", arg, ok))
    /\ UNCHANGED <<mod, params, check_mode, info, local, run, tn_version, mw>>

UserUpdate ==
    /\ mod = "user" /\ pc = "user.update"
    /\ \E ok \in BOOLEAN :
          /\ calls' = Logged("user.update", "call", arg, ok)
          /\ daemon' = IF ok THEN <<Merge(daemon[1], UserStored(arg))>> ELSE daemon
          /\ Follow(Plan(IF ok THEN "done" ELSE "failed", arg, ok))
    /\ UNCHANGED <<mod, params, check_mode, info, local, run, tn_version, mw>>

UserDelete ==
    /\ mod = "user" /\ pc = "user.delete"
    /\ \E ok \in BOOLEAN :
          /\ calls' = Logged("user.delete", "call", arg, ok)
          /\ daemon' = IF ok THEN <<>> ELSE daemon
          /\ Follow(Plan(IF ok THEN "done" ELSE "failed", arg, ok))
    /\ UNCHANGED <<mod, params, check_mode, info, local, run, tn_version, mw>>

(***************************************************************************)
(* module_utils: middleware.py, midclt.py, client.py, exceptions.py        *)
(***************************************************************************)
\* Values of the environment variable middleware_method.
MwFlags == {"unset", "midclt", "client", "rest"}

\* os.getenv('middleware_method', 'midclt')
getenv(flag) == IF flag = "unset" THEN "midclt" ELSE flag

\* MiddleWare._pick_method(): the transport class it returns, or the
\* exception it raises.
_pick_methodLenient(flag) ==
    IF getenv(flag) = "midclt" THEN "Midclt" ELSE "MiddlewareClient"
_pick_method(flag) ==
    LET method == getenv(flag)
    IN  IF method = "midclt" THEN "Midclt"
        ELSE IF method = "client" THEN "MiddlewareClient"
        ELSE "Exception"

\* The facade of a new process: nothing picked, MiddlewareClient.client is
\* None (0), no connection made yet.
MwStart(flag) == [method |-> flag, picked |-> "none", client |-> 0, connects |-> 0]

\* Python values that pass through a transport.
PyStr(s) == [type |-> "str", text |-> s]

PyBool(b) == [type |-> "bool", text |-> IF b THEN "True" ELSE "False"]

PyNone == [type |-> "NoneType", text |-> "None"]

\* What a transport operation does: return a value or raise.
Return(v) == [raised |-> "none", value |-> v]

Raise(kind) == [raised |-> kind, value |-> PyNone]

\* What the daemon does with a request.
Answer(v) == [kind |-> "value", value |-> v]

NoMethod == [kind |-> "nomethod", value |-> PyNone]

DaemonError == [kind |-> "error", value |-> PyNone]

\* The text the midclt command prints for a value.
MidcltText(v) == IF v.type = "NoneType" THEN "null" ELSE v.text

\* Midclt._to_json(): True and False are lowered first, then json.loads().
_to_json(msg) ==
    IF msg \in {"True", "False", "true", "false"}
    THEN Return(PyBool(msg \in {"True", "true"}))
    ELSE IF msg = "null" THEN Return(PyNone)
    ELSE Raise("JSONDecodeError")

\* Midclt.call(): any non-zero exit of midclt, a missing method included,
\* becomes a plain Exception.
MidcltCall(ans, output) ==
    IF ans.kind # "value" THEN Raise("Exception")
    ELSE IF output = "str" THEN Return(PyStr(MidcltText(ans.value)))
    ELSE IF output = "json"
         THEN IF _to_json(MidcltText(ans.value)).raised # "none"
              THEN Raise("Exception")
              ELSE _to_json(MidcltText(ans.value))
    ELSE Raise("Exception")

\* Midclt.job(): call() with output 'str', then the last line as JSON;
\* whatever is raised is raised again.
MidcltJob(ans) ==
    IF MidcltCall(ans, "str").raised # "none" THEN MidcltCall(ans, "str")
    ELSE _to_json(MidcltCall(ans, "str").value.text)

\* MiddlewareClient.call(): the library's MethodNotFoundError is replaced
\* by the collection's; output is ignored.
ClientCall(ans) ==
    IF ans.kind = "value" THEN Return(ans.value)
    ELSE IF ans.kind = "nomethod" THEN Raise("MethodNotFoundError")
    ELSE Raise("Exception")

\* MiddlewareClient.job(): nothing is caught, the library's exception
\* passes through.
ClientJob(ans) ==
    IF ans.kind = "value" THEN Return(ans.value)
    ELSE IF ans.kind = "nomethod" THEN Raise("middlewared.MethodNotFoundError")
    ELSE Raise("Exception")

\* MiddleWare.call() and MiddleWare.job() on the transport picked.
Transport(picked, kind, ans, output) ==
    IF picked = "Midclt"
    THEN (IF kind = "call" THEN MidcltCall(ans, output) ELSE MidcltJob(ans))
    ELSE (IF kind = "call" THEN ClientCall(ans) ELSE ClientJob(ans))

\* MiddlewareClient._client(): the connection is made when there is none.
_clientAlways(m) ==
    [m EXCEPT !.client = m.connects + 1, !.connects = m.connects + 1]
_client(m) ==
    IF m.client = 0
    THEN [m EXCEPT !.client = m.connects + 1, !.connects = m.connects + 1]
    ELSE m

\* The facade after an operation: only the client transport connects,
\* and only when the connection can be made.
Connected(m, up) == IF m.picked = "MiddlewareClient" /\ up THEN _client(m) ELSE m

\* The operation cannot reach the daemon: no connection.
Unreached(m) == m.picked = "MiddlewareClient" /\ m.client = 0
\* Number of operations a caller makes through the facade.
MaxOps == 3

\* A caller of the facade: the flag is whatever the play sets.
InitFacade ==
    /\ mod = "facade"
    /\ check_mode = FALSE
    /\ params = NoArg
    /\ daemon = <<>>
    /\ tn_version = NoVersion
    /\ \E flag \in MwFlags : mw = MwStart(flag)

\* Methods a caller invokes, and what the daemon does with each.
FacadeAnswers ==
    [method : {"core.ping"}, ans : {Answer(PyBool(TRUE)), Answer(PyStr("pong")), DaemonError}]
    \cup [method : {"no.such.method"}, ans : {NoMethod}]

\* MW.client(): the transport class is picked from the flag, or the
\* unknown flag is refused.
FacadeClient ==
    /\ mod = "facade" /\ pc = "start"
    /\ IF _pick_method(mw.method) = "Exception"
       THEN pc' = "crashed" /\ mw' = mw
       ELSE pc' = "ready" /\ mw' = [mw EXCEPT !.picked = _pick_method(mw.method)]
    /\ UNCHANGED <<mod, params, check_mode, daemon, info, arg, calls, result, local, run,
                   tn_version>>

\* mw.call(...) or mw.job(...): the log keeps the transport, the
\* connection used and what was raised.
FacadeOp ==
    /\ mod = "facade" /\ pc = "ready" /\ Len(calls) < MaxOps
    /\ \E kind \in {"call", "job"}, a \in FacadeAnswers, output \in {"json", "str"},
          up \in BOOLEAN :
          LET m == Connected(mw, up)
              out == IF Unreached(m) THEN Raise("Exception")
                     ELSE Transport(m.picked, kind, a.ans, output)
          IN  /\ mw' = m
              /\ calls' = Logged(a.method, kind,
                                 [transport |-> m.picked, client |-> m.client,
                                  raised |-> out.raised],
                                 out.raised = "none")
    /\ UNCHANGED <<mod, pc, params, check_mode, daemon, info, arg, result, local, run,
                   tn_version>>
(***************************************************************************)
(* jails.py                                                                *)
(***************************************************************************)
\* The daemon of a jails run: the activated pool, whether the lookup
\* works, and what jail.activate does.
JailsDaemons ==
    [pool : {PyStr("tank"), PyStr("other"), PyNone},
     lookup : {"ok", "error"},
     activate : {Answer(PyBool(TRUE)), Answer(PyBool(FALSE)), DaemonError}]

InitJails ==
    /\ mod = "jails"
    /\ check_mode \in BOOLEAN
    /\ params \in {NoArg, [pool |-> "tank"]}
    /\ \E d \in JailsDaemons : daemon = <<d>>
    /\ tn_version = NoVersion
    /\ \E flag \in MwFlags : mw = MwStart(flag)

JailsLookup(d) == IF d.lookup = "ok" THEN Answer(d.pool) ELSE DaemonError

\* main() after the lookup of the activated pool.
JailsAfterQuery(out) ==
    IF out.raised # "none" THEN Plan("failed", NoArg, FALSE)
    ELSE IF Has(params, "pool") /\ out.value # PyStr(params.pool)
         THEN Mutation("jail.activate", [pool |-> params.pool])
         ELSE Plan("done", NoArg, FALSE)

\* main() after jail.activate: err is compared with the string 'True'.
JailsAfterActivate(out) ==
    IF out.raised # "none" THEN Plan("failed", arg, FALSE)
    ELSE IF out.value # PyStr("True") THEN Plan("failed", arg, FALSE)
    ELSE Plan("done", arg, TRUE)

\* mw = MW.client(); an unknown flag raises and nothing catches it.
JailsClient ==
    /\ mod = "jails" /\ pc = "start"
    /\ IF _pick_method(mw.method) = "Exception"
       THEN pc' = "crashed" /\ mw' = mw
       ELSE pc' = "jails.query" /\ mw' = [mw EXCEPT !.picked = _pick_method(mw.method)]
    /\ local' = [script |-> daemon[1]]
    /\ UNCHANGED <<mod, params, check_mode, daemon, info, arg, calls, result, run,
                   tn_version>>

JailsQuery ==
    /\ mod = "jails" /\ pc = "jails.query"
    /\ LET m == Connected(mw, TRUE)
           out == Transport(m.picked, "call", JailsLookup(daemon[1]), "str")
       IN  /\ mw' = m
           /\ calls' = Logged("jail.get_activated_pool", "call", NoArg, out.raised = "none")
           /\ info' = IF out.raised = "none" THEN <<out.value>> ELSE info
           /\ Follow(JailsAfterQuery(out))
    /\ UNCHANGED <<mod, params, check_mode, daemon, local, run, tn_version>>

JailsActivate ==
    /\ mod = "jails" /\ pc = "jail.activate"
    /\ LET m == Connected(mw, TRUE)
           out == Transport(m.picked, "call", daemon[1].activate, "str")
       IN  /\ mw' = m
           /\ calls' = Logged("jail.activate", "call", arg, out.raised = "none")
           /\ daemon' = IF daemon[1].activate = Answer(PyBool(TRUE))
                        THEN <<[daemon[1] EXCEPT !.pool = PyStr(arg.pool)]>>
                        ELSE daemon
           /\ Follow(JailsAfterActivate(out))
    /\ UNCHANGED <<mod, params, check_mode, info, local, run, tn_version>>
(***************************************************************************)
(* setup.py: get_tn_version()                                              *)
(***************************************************************************)
\* Number of times a process calls get_tn_version().
MaxVersionCalls == 2

\* Version strings of the daemon, and their parts between the dashes.
VersionTexts == {"TrueNAS-SCALE-22.12.3.1", "TrueNAS-13.0-U5", "22.12"}

Segs(text) ==
    CASE text = "TrueNAS-SCALE-22.12.3.1" -> <<"TrueNAS", "SCALE", "22.12.3.1">>
      [] text = "TrueNAS-13.0-U5" -> <<"TrueNAS", "13.0", "U5">>
      [] OTHER -> <<text>>

RECURSIVE Join(_)
Join(segs) ==
    IF Len(segs) = 1 THEN segs[1] ELSE segs[1] \o "-" \o Join(Tail(segs))

\* str.split("-", 1): a list of one or two strings.
PyList(items) == [type |-> "list", text |-> "", items |-> items]

split1(v) ==
    IF Len(Segs(v.text)) = 1 THEN PyList(<<v.text>>)
    ELSE PyList(<<Segs(v.text)[1], Join(Tail(Segs(v.text)))>>)

\* Parts that \w+ matches whole, and parts that begin with a digit.
Words == {"TrueNAS", "SCALE", "CORE", "U5"}

Digital == {"22.12.3.1", "13.0", "22.12"}

\* re.match(r'^(?:(\w+)-)(?:(\w+)-)?(\d.*)', x): the groups, no match, or
\* the TypeError of an argument that is not a string.
re_match(x) ==
    IF x.type # "str" THEN [raised |-> "TypeError", matched |-> FALSE, groups |-> <<>>]
    ELSE LET s == Segs(x.text)
         IN  IF Len(s) >= 3 /\ s[1] \in Words /\ s[2] \in Words /\ s[3] \in Digital
             THEN [raised |-> "none", matched |-> TRUE,
                   groups |-> <<s[1], s[2], Join(SubSeq(s, 3, Len(s)))>>]
             ELSE IF Len(s) >= 2 /\ s[1] \in Words /\ s[2] \in Digital
             THEN [raised |-> "none", matched |-> TRUE,
                   groups |-> <<s[1], None, Join(Tail(s))>>]
             ELSE [raised |-> "none", matched |-> FALSE, groups |-> <<>>]

\* packaging.version.parse(): the release of a version it can read.
version_parse(text) ==
    CASE text = "22.12.3.1" -> [raised |-> "none", release |-> <<22, 12, 3, 1>>]
      [] text = "22.12" -> [raised |-> "none", release |-> <<22, 12>>]
      [] text = "13.0" -> [raised |-> "none", release |-> <<13, 0>>]
      [] OTHER -> [raised |-> "InvalidVersion", release |-> <<>>]

\* The daemon of a process that asks for the version; fail is the number
\* of the version query that the daemon answers with an error, if any.
VersionDaemons ==
    [product_type : {"CORE", "SCALE"}, version : VersionTexts,
     product_name : {"TrueNAS"}, fail : 0..3]

InitSetup ==
    /\ mod = "setup"
    /\ check_mode = FALSE
    /\ params = NoArg
    /\ \E d \in VersionDaemons : daemon = <<d>>
    /\ tn_version = NoVersion
    /\ \E flag \in MwFlags : mw = MwStart(flag)

VersionAnswer(d, n, text) == IF d.fail = n THEN DaemonError ELSE Answer(PyStr(text))

\* The end of get_tn_version(), from re.match() on: what is raised, or
\* the value that is memoized and returned.
VersionParsed(product_type, full_version, product_name) ==
    LET match == re_match(full_version)
        name == IF product_name = None /\ match.matched THEN match.groups[1]
                ELSE product_name
        sys_version == IF match.matched THEN version_parse(match.groups[3])
                       ELSE version_parse(full_version.text)
    IN  IF match.raised # "none" THEN [raised |-> match.raised, value |-> NoVersion]
        ELSE IF sys_version.raised # "none"
        THEN [raised |-> sys_version.raised, value |-> NoVersion]
        ELSE [raised |-> "none",
              value |-> [name |-> name, type |-> product_type,
                         version |-> sys_version.release]]

\* get_tn_version() when nothing is memoized, on the transport picked:
\* the queries it sends (by is the number of this invocation) and what it
\* raises or returns.
get_tn_version(picked, d, by) ==
    LET o1 == Transport(picked, "call", VersionAnswer(d, 1, d.product_type), "str")
        o2 == Transport(picked, "call", VersionAnswer(d, 2, d.version), "str")
        o3 == Transport(picked, "call", VersionAnswer(d, 3, d.product_name), "str")
        c1 == Call("system.product_type", "call", [by |-> by], o1.raised = "none")
        c2 == Call("system.version", "call", [by |-> by], o2.raised = "none")
        c3 == Call("system.product_name", "call", [by |-> by], o3.raised = "none")
    IN  IF o1.raised # "none"
        THEN [raised |-> o1.raised, value |-> NoVersion, calls |-> <<c1>>]
        ELSE IF o2.raised # "none"
        THEN [raised |-> o2.raised, value |-> NoVersion, calls |-> <<c1, c2>>]
        ELSE IF o1.value.text = "CORE"
        THEN IF o3.raised # "none"
             THEN [raised |-> o3.raised, value |-> NoVersion, calls |-> <<c1, c2, c3>>]
             ELSE [raised |-> VersionParsed(o1.value.text, split1(o2.value),
                                            o3.value.text).raised,
                   value |-> VersionParsed(o1.value.text, split1(o2.value),
                                           o3.value.text).value,
                   calls |-> <<c1, c2, c3>>]
        ELSE [raised |-> VersionParsed(o1.value.text, split1(o2.value), None).raised,
              value |-> VersionParsed(o1.value.text, split1(o2.value), None).value,
              calls |-> <<c1, c2>>]

\* One call of get_tn_version() by a process that goes on after an
\* exception: local keeps what each call raised or returned.
GetTnVersion ==
    /\ mod = "setup" /\ pc = "start" /\ Len(local) < MaxVersionCalls
    /\ IF tn_version # NoVersion
       THEN /\ local' = Append(local, [raised |-> "none", value |-> tn_version])
            /\ UNCHANGED <<calls, tn_version, mw>>
       ELSE IF _pick_method(mw.method) = "Exception"
       THEN /\ local' = Append(local, [raised |-> "Exception", value |-> NoVersion])
            /\ UNCHANGED <<calls, tn_version, mw>>
       ELSE LET m == Connected([mw EXCEPT !.picked = _pick_method(mw.method)], TRUE)
                r == get_tn_version(m.picked, daemon[1], Len(local) + 1)
            IN  /\ mw' = m
                /\ calls' = calls \o r.calls
                /\ tn_version' = IF r.raised = "none" THEN r.value ELSE tn_version
                /\ local' = Append(local, [raised |-> r.raised, value |-> r.value])
    /\ UNCHANGED <<mod, pc, params, check_mode, daemon, info, arg, result, run>>

(***************************************************************************)
(* pool_snapshot_task.py                                                   *)
(***************************************************************************)
\* The table that converts lifetime_unit; a key it lacks raises KeyError.
SnapTaskUnit ==
    [x \in {"hour", "hours", "HOURS"} |-> "HOUR"] @@
    [x \in {"day", "days", "DAYS"} |-> "DAY"] @@
    [x \in {"week", "weeks", "WEEKS"} |-> "WEEK"] @@
    [x \in {"month", "months", "MONTHS"} |-> "MONTH"] @@
    [x \in {"year", "years", "YEARS"} |-> "YEAR"]

\* begin_time and end_time: ^(\d?)\d:\d\d$ with a two-digit hour enforced;
\* None stands for a value that does not match.
SnapTaskTime(t) ==
    CASE t = "9:00" -> "09:00"
      [] t = "09:00" -> "09:00"
      [] t = "17:30" -> "17:30"
      [] OTHER -> None

\* Schedule options and the daemon's names for them, in the order of main().
SnapTaskScheduleKeys ==
    <<<<"minute", "minute">>, <<"hour", "hour">>, <<"day", "dom">>,
      <<"month", "month">>, <<"weekday", "dow">>,
      <<"begin_time", "begin">>, <<"end_time", "end">>>>

\* The value of a schedule option as main() uses it.
SnapTaskOption(k) ==
    IF k \in {"begin_time", "end_time"} THEN SnapTaskTime(params[k]) ELSE params[k]

SnapTask(id, rec, lv, minute, excl) ==
    [id |-> id, dataset |-> "tank", recursive |-> rec, lifetime_value |-> lv,
     lifetime_unit |-> "WEEK", naming_schema |-> "auto-%Y%m%d",
     schedule |-> [minute |-> minute, hour |-> "*", dom |-> "*", month |-> "*",
                   dow |-> "*", begin |-> "09:00", end |-> "23:59"],
     exclude |-> excl, allow_empty |-> TRUE, enabled |-> TRUE]

InitSnapTask ==
    /\ mod = "pool_snapshot_task"
    /\ check_mode \in BOOLEAN
    /\ \E st \in {"present", "absent"}, rec \in BOOLEAN,
          unit \in {"weeks", "WEEK"},
          excl \in {<<None>>, <<>>, <<"tank/x">>},
          en \in {None, "yes"}, minute \in {None, "0"},
          begin \in {None, "9:00", "noon"} :
          LET p0 == [match |-> [dataset |-> "tank"], state |-> st,
                     dataset |-> "tank", recursive |-> rec,
                     lifetime_value |-> 2, lifetime_unit |-> unit,
                     name_format |-> "auto-%Y%m%d"]
              p1 == IF excl # <<None>> THEN Put(p0, "exclude", excl) ELSE p0
              p2 == IF en # None THEN Put(p1, "enabled", TRUE) ELSE p1
              p3 == IF minute # None THEN Put(p2, "minute", minute) ELSE p2
          IN  params = IF begin # None THEN Put(p3, "begin_time", begin) ELSE p3
    /\ daemon \in {<<>>,
                   <<SnapTask(1, FALSE, 2, "0", <<>>)>>,
                   <<SnapTask(1, TRUE, 2, "0", <<"tank/x">>)>>,
                   <<SnapTask(1, FALSE, 3, "30", <<>>)>>,
                   <<SnapTask(1, TRUE, 2, "0", <<>>), SnapTask(2, FALSE, 2, "30", <<>>)>>}

\* The schedule dict: the supplied options (create), or those of them that
\* differ from the task (update).
RECURSIVE SnapTaskSchedule(_, _, _)
SnapTaskSchedule(keys, task_info, all) ==
    IF keys = <<>> THEN NoArg
    ELSE LET k == Head(keys)[1]
             f == Head(keys)[2]
             rest == SnapTaskSchedule(Tail(keys), task_info, all)
         IN  IF Has(params, k) /\ (all \/ task_info.schedule[f] # SnapTaskOption(k))
             THEN Put(rest, f, SnapTaskOption(k)) ELSE rest

SnapTaskCreateArg ==
    LET a0 == [dataset |-> params.dataset, recursive |-> params.recursive,
               lifetime_value |-> params.lifetime_value,
               lifetime_unit |-> SnapTaskUnit[params.lifetime_unit],
               naming_schema |-> params.name_format]
        a1 == IF Has(params, "exclude") /\ params.recursive
              THEN Put(a0, "exclude", params.exclude) ELSE a0
        a2 == IF Has(params, "allow_empty")
              THEN Put(a1, "allow_empty", params.allow_empty) ELSE a1
        a3 == IF Has(params, "enabled") THEN Put(a2, "enabled", params.enabled) ELSE a2
        schedule == SnapTaskSchedule(SnapTaskScheduleKeys, NoArg, TRUE)
    IN  IF DOMAIN schedule # {} THEN Put(a3, "schedule", schedule) ELSE a3

\* The handling of exclude for a task that exists: the set comparison,
\* then the assignment for a task that is or becomes non-recursive.
SnapTaskExclude(a, task_info) ==
    LET a1 == IF Has(params, "exclude") /\ ToSet(task_info.exclude) # ToSet(params.exclude)
              THEN Put(a, "exclude", params.exclude) ELSE a
    IN  IF ~params.recursive \/ ~task_info.recursive
        THEN Put(a1, "exclude", <<>>) ELSE a1

\* The differences between what is and what should be.
SnapTaskDiff(task_info) ==
    LET unit == SnapTaskUnit[params.lifetime_unit]
        a0 == IF task_info.dataset # params.dataset
              THEN Put(NoArg, "dataset", params.dataset) ELSE NoArg
        a1 == IF task_info.recursive # params.recursive
              THEN Put(a0, "recursive", params.recursive) ELSE a0
        a2 == IF task_info.lifetime_value # params.lifetime_value
              THEN Put(a1, "lifetime_value", params.lifetime_value) ELSE a1
        a3 == IF task_info.lifetime_unit # unit
              THEN Put(a2, "lifetime_unit", unit) ELSE a2
        a4 == IF task_info.naming_schema # params.name_format
              THEN Put(a3, "naming_schema", params.name_format) ELSE a3
        a5 == SnapTaskExclude(a4, task_info)
        a6 == IF Has(params, "allow_empty") /\ task_info.allow_empty # params.allow_empty
              THEN Put(a5, "allow_empty", params.allow_empty) ELSE a5
        a7 == IF Has(params, "enabled") /\ task_info.enabled # params.enabled
              THEN Put(a6, "enabled", params.enabled) ELSE a6
        schedule == SnapTaskSchedule(SnapTaskScheduleKeys, task_info, FALSE)
    IN  IF DOMAIN schedule # {} THEN Put(a7, "schedule", schedule) ELSE a7

SnapTaskPlan(matching_tasks) ==
    IF matching_tasks = <<>>
    THEN IF params.state = "present"
         THEN Mutation("pool.snapshottask.create", SnapTaskCreateArg)
         ELSE Plan("done", NoArg, FALSE)
    ELSE IF params.state = "present"
         THEN LET a == SnapTaskDiff(matching_tasks[1])
              IN  IF DOMAIN a = {} THEN Plan("done", a, FALSE)
                  ELSE Mutation("pool.snapshottask.update", a)
         ELSE Mutation("pool.snapshottask.delete", NoArg)

\* main() up to the decision: the conversions of the options, then the lookup.
SnapTaskQuery ==
    /\ mod = "pool_snapshot_task" /\ pc = "start"
    /\ local' = [todo |-> daemon]
    /\ IF params.lifetime_unit \notin DOMAIN SnapTaskUnit
       THEN /\ Follow(Plan("crashed", arg, result.changed))
            /\ UNCHANGED <<calls, info>>
       ELSE IF Has(params, "begin_time") /\ SnapTaskTime(params.begin_time) = None
       THEN /\ Follow(Plan("failed", arg, result.changed))
            /\ UNCHANGED <<calls, info>>
       ELSE \E ok \in BOOLEAN :
               /\ calls' = Logged("pool.snapshottask.query", "call",
                                  <<<<"dataset", "=", params.match.dataset>>>>, ok)
               /\ IF ok
                  THEN /\ info' = daemon
                       /\ Follow(SnapTaskPlan(daemon))
                  ELSE /\ info' = info
                       /\ Follow(Plan("failed", arg, result.changed))
    /\ UNCHANGED <<mod, params, check_mode, daemon, run, tn_version, mw>>

\* The daemon fills in what it is not given.
SnapTaskStored(a) ==
    LET base == SnapTask(1, FALSE, 2, "00", <<>>)
        top == Merge(base, Restrict(a, DOMAIN base \ {"schedule"}))
    IN  IF Has(a, "schedule")
        THEN [top EXCEPT !.schedule = Merge(@, a.schedule)] ELSE top

SnapTaskCreate ==
    /\ mod = "pool_snapshot_task" /\ pc = "pool.snapshottask.create"
    /\ \E ok \in BOOLEAN :
          /\ calls' = Logged("pool.snapshottask.create", "call", arg, ok)
          /\ daemon' = IF ok THEN <<SnapTaskStored(arg)>> ELSE daemon
          /\ Follow(Plan(IF ok THEN "done" ELSE "failed", arg, ok))
    /\ UNCHANGED <<mod, params, check_mode, info, local, run, tn_version, mw>>

SnapTaskUpdate ==
    /\ mod = "pool_snapshot_task" /\ pc = "pool.snapshottask.update"
    /\ \E ok \in BOOLEAN :
          LET old == daemon[1]
              top == Merge(old, Restrict(arg, DOMAIN old \ {"schedule"}))
              new == IF Has(arg, "schedule")
                     THEN [top EXCEPT !.schedule = Merge(@, arg.schedule)] ELSE top
          IN  /\ calls' = Logged("pool.snapshottask.update", "call", arg, ok)
              /\ daemon' = IF ok THEN <<new>> \o Tail(daemon) ELSE daemon
              /\ Follow(Plan(IF ok THEN "done" ELSE "failed", arg, ok))
    /\ UNCHANGED <<mod, params, check_mode, info, local, run, tn_version, mw>>

\* One turn of the loop over matching_tasks, and what follows the loop.
SnapTaskDelete ==
    /\ mod = "pool_snapshot_task" /\ pc = "pool.snapshottask.delete"
    /\ \E ok \in BOOLEAN :
          LET task == Head(local.todo)
              todo == Tail(local.todo)
          IN  /\ calls' = Logged("pool.snapshottask.delete", "call", [id |-> task.id], ok)
              /\ daemon' = IF ok THEN SelectSeq(daemon, LAMBDA t : t.id # task.id)
                           ELSE daemon
              /\ local' = [local EXCEPT !.todo = todo]
              /\ Follow(Plan(IF ~ok THEN "failed"
                             ELSE IF todo = <<>> THEN "done"
                             ELSE "pool.snapshottask.delete", arg, ok /\ todo = <<>>))
    /\ UNCHANGED <<mod, params, check_mode, info, run, tn_version, mw>>

(***************************************************************************)
(* smart_test_task.py                                                      *)
(***************************************************************************)
\* What disk.device_to_identifier answers for a disk name.
diskname2id(name) ==
    CASE name = "da0" -> "{serial}A"
      [] name = "da1" -> "{serial}B"
      [] OTHER -> None

\* str.upper() on the test types.
SmartTestUpper(test) ==
    CASE test = "long" -> "LONG"
      [] test = "short" -> "SHORT"
      [] OTHER -> test

SmartTestScheduleKeys ==
    <<<<"hour", "hour">>, <<"day", "dom">>, <<"month", "month">>, <<"weekday", "dow">>>>

SmartTest(all, disks, hour) ==
    [id |-> 1, desc |-> "t1", all_disks |-> all, disks |-> disks, type |-> "LONG",
     schedule |-> [hour |-> hour, dom |-> "*", month |-> "*", dow |-> "*"]]

InitSmartTest ==
    /\ mod = "smart_test_task"
    /\ check_mode \in BOOLEAN
    /\ \E st \in {"present", "absent"}, test \in {None, "long", "short"},
          disks \in {<<"ALL">>, <<"da0">>, <<"da0", "da1">>, <<"da1", "da0">>},
          hour \in {"1", "2"} :
          LET p0 == [name |-> "t1", state |-> st, disks |-> disks, hour |-> hour]
          IN  params = IF test # None THEN Put(p0, "test", test) ELSE p0
    /\ daemon \in {<<>>,
                   <<SmartTest(TRUE, <<>>, "1")>>,
                   <<SmartTest(FALSE, <<"{serial}A">>, "1")>>,
                   <<SmartTest(FALSE, <<"{serial}B", "{serial}A">>, "1")>>}

RECURSIVE SmartTestSchedule(_, _, _)
SmartTestSchedule(keys, smart_test_info, all) ==
    IF keys = <<>> THEN NoArg
    ELSE LET k == Head(keys)[1]
             f == Head(keys)[2]
             rest == SmartTestSchedule(Tail(keys), smart_test_info, all)
         IN  IF Has(params, k) /\ (all \/ smart_test_info.schedule[f] # params[k])
             THEN Put(rest, f, params[k]) ELSE rest

SmartTestCreateArg(ids) ==
    LET a0 == [desc |-> params.name]
        a1 == IF "ALL" \in ToSet(params.disks) THEN Put(a0, "all_disks", TRUE)
              ELSE Put(a0, "disks", ids)
        a2 == IF Has(params, "test")
              THEN Put(a1, "type", SmartTestUpper(params.test)) ELSE a1
        schedule == SmartTestSchedule(SmartTestScheduleKeys, NoArg, TRUE)
    IN  IF DOMAIN schedule # {} THEN Put(a2, "schedule", schedule) ELSE a2

\* The disks of a task that exists.  Only the change from all disks to
\* some disks goes into arg; the other two differences are written into
\* smart_test_info, which is not sent.
SmartTestDisks(smart_test_info, want_disks) ==
    IF "ALL" \in ToSet(params.disks) THEN NoArg
    ELSE IF smart_test_info.all_disks
         THEN [all_disks |-> FALSE, disks |-> want_disks]
         ELSE NoArg

SmartTestDiff(smart_test_info, want_disks) ==
    LET a0 == SmartTestDisks(smart_test_info, want_disks)
        a1 == IF Has(params, "test") /\ smart_test_info.type # SmartTestUpper(params.test)
              THEN Put(a0, "type", SmartTestUpper(params.test)) ELSE a0
        schedule == SmartTestSchedule(SmartTestScheduleKeys, smart_test_info, FALSE)
    IN  IF DOMAIN schedule # {} THEN Put(a1, "schedule", schedule) ELSE a1

\* main() once the disk names are converted.
SmartTestPlan(smart_test_info, ids) ==
    IF smart_test_info = <<>>
    THEN Mutation("smart.test.create", SmartTestCreateArg(ids))
    ELSE LET a == SmartTestDiff(smart_test_info[1], ids)
         IN  IF DOMAIN a = {} THEN Plan("done", a, FALSE)
             ELSE Mutation("smart.test.update", a)

\* main() after the lookup: the disk names are converted first, unless ALL
\* is among them or the task is to be absent.
SmartTestAfterQuery(smart_test_info) ==
    IF params.state = "absent"
    THEN IF smart_test_info = <<>> THEN Plan("done", NoArg, FALSE)
         ELSE Mutation("smart.test.delete", NoArg)
    ELSE IF "ALL" \in ToSet(params.disks) THEN SmartTestPlan(smart_test_info, <<>>)
    ELSE Plan("disk.device_to_identifier", NoArg, FALSE)

SmartTestQuery ==
    /\ mod = "smart_test_task" /\ pc = "start"
    /\ local' = [todo |-> params.disks, ids |-> <<>>]
    /\ \E ok \in BOOLEAN :
          /\ calls' = Logged("smart.test.query", "call",
                             <<<<"desc", "=", params.name>>>>, ok)
          /\ IF ok
             THEN /\ info' = daemon
                  /\ Follow(SmartTestAfterQuery(daemon))
             ELSE /\ info' = info
                  /\ Follow(Plan("failed", arg, result.changed))
    /\ UNCHANGED <<mod, params, check_mode, daemon, run, tn_version, mw>>

\* One diskname2id() of the loop over disks, and what follows the loop.
SmartTestDiskId ==
    /\ mod = "smart_test_task" /\ pc = "disk.device_to_identifier"
    /\ \E ok \in BOOLEAN :
          LET name == Head(local.todo)
              todo == Tail(local.todo)
              ids == Append(local.ids, diskname2id(name))
          IN  /\ calls' = Logged("disk.device_to_identifier", "call", name, ok)
              /\ local' = [todo |-> todo, ids |-> IF ok THEN ids ELSE local.ids]
              /\ Follow(IF ~ok THEN Plan("failed", arg, result.changed)
                        ELSE IF todo # <<>>
                        THEN Plan("disk.device_to_identifier", arg, result.changed)
                        ELSE SmartTestPlan(info, ids))
    /\ UNCHANGED <<mod, params, check_mode, daemon, info, run, tn_version, mw>>

SmartTestCreate ==
    /\ mod = "smart_test_task" /\ pc = "smart.test.create"
    /\ \E ok \in BOOLEAN :
          LET base == SmartTest(FALSE, <<>>, "*")
              top == Merge(base, Restrict(arg, DOMAIN base \ {"schedule"}))
          IN  /\ calls' = Logged("smart.test.create", "call", arg, ok)
              /\ daemon' = IF ok
                           THEN <<[top EXCEPT !.schedule =
                                            IF Has(arg, "schedule")
                                            THEN Merge(@, arg.schedule) ELSE @]>>
                           ELSE daemon
              /\ Follow(Plan(IF ok THEN "done" ELSE "failed", arg, ok))
    /\ UNCHANGED <<mod, params, check_mode, info, local, run, tn_version, mw>>

SmartTestUpdate ==
    /\ mod = "smart_test_task" /\ pc = "smart.test.update"
    /\ \E ok \in BOOLEAN :
          LET old == daemon[1]
              top == Merge(old, Restrict(arg, DOMAIN old \ {"schedule"}))
              new == IF Has(arg, "schedule")
                     THEN [top EXCEPT !.schedule = Merge(@, arg.schedule)] ELSE top
          IN  /\ calls' = Logged("smart.test.update", "call", arg, ok)
              /\ daemon' = IF ok THEN <<new>> ELSE daemon
              /\ Follow(Plan(IF ok THEN "done" ELSE "failed", arg, ok))
    /\ UNCHANGED <<mod, params, check_mode, info, local, run, tn_version, mw>>

SmartTestDelete ==
    /\ mod = "smart_test_task" /\ pc = "smart.test.delete"
    /\ \E ok \in BOOLEAN :
          /\ calls' = Logged("smart.test.delete", "call", [id |-> info[1].id], ok)
          /\ daemon' = IF ok THEN <<>> ELSE daemon
          /\ Follow(Plan(IF ok THEN "done" ELSE "failed", arg, ok))
    /\ UNCHANGED <<mod, params, check_mode, info, local, run, tn_version, mw>>

(***************************************************************************)
(* filesystem_acl.py: has_object_changed()                                 *)
(***************************************************************************)
\* A list value; scalars are S(x) and dicts D(f).
L(s) == [list |-> s]

IsList(x) == "list" \in DOMAIN x

\* type(x)
type(x) == IF IsDict(x) THEN "dict" ELSE IF IsList(x) THEN "list" ELSE "int"

AclScalars == {S(0), S(1), S(2)}

AclPairsOf(X) == {<<a, b>> : a \in X, b \in X}

AclLeaves ==
    AclScalars \cup {L(p) : p \in AclPairsOf(AclScalars)}
               \cup {D([a |-> s]) : s \in AclScalars}

\* The values has_object_changed() is given: scalars, dicts and lists,
\* nested up to lists of lists and lists of dicts.
AclValues ==
    AclLeaves \cup {L(<<>>), D([b |-> S(0)]), D([a |-> S(0), b |-> S(1)])}
              \cup {L(<<x>>) : x \in AclLeaves}
              \cup {L(p) : p \in AclPairsOf(AclLeaves)}
              \cup {D([a |-> L(p)]) : p \in AclPairsOf(AclScalars)}

InitAcl ==
    /\ mod = "filesystem_acl"
    /\ check_mode = FALSE
    /\ daemon = <<>>
    /\ \E d1 \in AclValues, d2 \in AclValues : params = [d1 |-> d1, d2 |-> d2]

\* Keys of the dicts, in sorted order, and their characters.
AclKeys == <<"a", "b">>

AclKeyText(k) == IF k = "a" THEN <<34, 97, 34>> ELSE <<34, 98, 34>>

\* json.dumps(x, sort_keys=True), as the sequence of its character codes.
RECURSIVE json_dumps(_)
RECURSIVE json_items(_, _)
json_items(x, i) ==
    IF IsList(x)
    THEN IF i > Len(x.list) THEN <<>>
         ELSE (IF i > 1 THEN <<44, 32>> ELSE <<>>)
              \o json_dumps(x.list[i]) \o json_items(x, i + 1)
    ELSE IF i > Len(AclKeys) THEN <<>>
         ELSE IF AclKeys[i] \notin DOMAIN x.dict THEN json_items(x, i + 1)
         ELSE (IF \E j \in 1..(i - 1) : AclKeys[j] \in DOMAIN x.dict
               THEN <<44, 32>> ELSE <<>>)
              \o AclKeyText(AclKeys[i]) \o <<58, 32>>
              \o json_dumps(x.dict[AclKeys[i]]) \o json_items(x, i + 1)

json_dumps(x) ==
    IF IsList(x) THEN <<91>> \o json_items(x, 1) \o <<93>>
    ELSE IF IsDict(x) THEN <<123>> \o json_items(x, 1) \o <<125>>
    ELSE <<48 + x.val>>

\* s < t on strings.
RECURSIVE StrLt(_, _)
StrLt(s, t) ==
    IF t = <<>> THEN FALSE
    ELSE IF s = <<>> THEN TRUE
    ELSE IF Head(s) # Head(t) THEN Head(s) < Head(t)
    ELSE StrLt(Tail(s), Tail(t))

\* sorted(d, key=lambda x: json.dumps(x, sort_keys=True)): a stable sort.
RECURSIVE sorted(_)
sorted(d) ==
    IF d = <<>> THEN <<>>
    ELSE LET rest == sorted(Tail(d))
             x == Head(d)
             before == SelectSeq(rest, LAMBDA y : StrLt(json_dumps(y), json_dumps(x)))
             after == SelectSeq(rest, LAMBDA y : ~StrLt(json_dumps(y), json_dumps(x)))
         IN  before \o <<x>> \o after

RECURSIVE has_object_changed(_, _)
has_object_changed(d1, d2) ==
    IF type(d1) # type(d2) THEN TRUE
    ELSE IF IsDict(d1)
    THEN IF DOMAIN d1.dict # DOMAIN d2.dict THEN TRUE
         ELSE \E k \in DOMAIN d1.dict : has_object_changed(d1.dict[k], d2.dict[k])
    ELSE IF IsList(d1)
    THEN IF Len(d1.list) # Len(d2.list) THEN TRUE
         ELSE LET sorted_d1 == sorted(d1.list)
                  sorted_d2 == sorted(d2.list)
              IN  \E i \in DOMAIN sorted_d1 :
                     has_object_changed(sorted_d1[i], sorted_d2[i])
    ELSE d1.val # d2.val

\* One comparison; the answer is what the caller reports as changed.
HasObjectChanged ==
    /\ mod = "filesystem_acl" /\ pc = "start"
    /\ Follow(Plan("done", arg, has_object_changed(params.d1, params.d2)))
    /\ UNCHANGED <<mod, params, check_mode, daemon, info, calls, local, run,
                   tn_version, mw>>

(***************************************************************************)
(* The same task run again: a fresh process, the same parameters, the      *)
(* daemon as the first run left it.                                        *)
(***************************************************************************)
RerunModules == {"group", "certificate", "sharing_nfs2", "sharing_nfs"}

Rerun ==
    /\ pc = "done" /\ run < MaxRuns /\ mod \in RerunModules
    /\ run' = run + 1
    /\ pc' = "start"
    /\ info' = <<>>
    /\ arg' = NoArg
    /\ calls' = <<>>
    /\ result' = NewResult
    /\ local' = <<>>
    /\ UNCHANGED <<mod, params, check_mode, daemon, tn_version, mw>>

Init ==
    /\ pc = "start"
    /\ info = <<>>
    /\ arg = NoArg
    /\ calls = <<>>
    /\ result = NewResult
    /\ local = <<>>
    /\ run = 1
    /\ \/ /\ tn_version = NoVersion
          /\ mw = MwStart("unset")
          /\ \/ InitGroup
             \/ InitCertificate
             \/ InitNfs
             \/ InitApp
             \/ InitJail
             \/ InitPlugin
             \/ InitJailFstab
             \/ InitFilesystem
             \/ InitSnapTask
             \/ InitSmartTest
             \/ InitAcl
       \/ (mw = MwStart("unset") /\ InitUser)
       \/ InitFacade
       \/ InitJails
       \/ InitSetup

Next ==
    \/ GroupQuery
    \/ GroupCreate
    \/ GroupUpdate
    \/ GroupDelete
    \/ CertificateQuery
    \/ CertificateCreate
    \/ CertificateRevoke
    \/ CertificateUpdate
    \/ CertificateDelete
    \/ NfsQuery
    \/ NfsCreate
    \/ NfsUpdate
    \/ NfsDelete
    \/ AppQuery
    \/ AppCreate
    \/ AppDelete
    \/ AppStop
    \/ AppConfig
    \/ AppUpdate
    \/ AppRestart
    \/ AppRunningQuery
    \/ AppStart
    \/ AppWaitRunning
    \/ AppStoppedQuery
    \/ AppWaitStopped
    \/ JailQuery
    \/ JailCreate
    \/ JailStart
    \/ JailStop
    \/ JailDelete
    \/ JailRestart
    \/ PluginQuery
    \/ PluginCreate
    \/ PluginDelete
    \/ JailFstabIocroot
    \/ JailFstabQuery
    \/ JailFstabList
    \/ JailFstabStop
    \/ JailFstabApply
    \/ FilesystemQuery
    \/ FilesystemCreate
    \/ FilesystemUpdate
    \/ FilesystemDelete
    \/ UserVersion
    \/ UserQuery
    \/ UserGroupQuery
    \/ UserCreate
    \/ UserUpdate
    \/ UserDelete
    \/ SnapTaskQuery
    \/ SnapTaskCreate
    \/ SnapTaskUpdate
    \/ SnapTaskDelete
    \/ SmartTestQuery
    \/ SmartTestDiskId
    \/ SmartTestCreate
    \/ SmartTestUpdate
    \/ SmartTestDelete
    \/ HasObjectChanged
    \/ Rerun
    \/ FacadeClient
    \/ FacadeOp
    \/ JailsClient
    \/ JailsQuery
    \/ JailsActivate
    \/ GetTnVersion

Spec == Init /\ [][Next]_vars

\* The interpreter keeps executing a wait loop it has entered: each turn of
\* `while True` in _ensure_running and _ensure_stopped is eventually taken.
FairSpec == Spec /\ WF_vars(AppWaitRunning) /\ WF_vars(AppWaitStopped)

(***************************************************************************)
(* Properties.                                                             *)
(***************************************************************************)
Ended == pc \in EndStates

\* The mutating calls of this run, in order.
MutatingSeq == SelectSeq(calls, Mutating)

AllOk == \A i \in DOMAIN calls : calls[i].ok

\* The method with which a module looks its resource up.
QueryOf(m) ==
    CASE m = "group" -> "group.query"
      [] m = "certificate" -> "certificate.query"
      [] m \in NfsModules -> "sharing.nfs.query"
      [] m = "app" -> "app.query"
      [] m \in {"jail", "jail_fstab"} -> "jail.query"
      [] m = "plugin" -> "plugin.query"
      [] m = "filesystem" -> "pool.dataset.query"
      [] m = "user" -> "user.query"
      [] m = "jails" -> "jail.get_activated_pool"
      [] m = "pool_snapshot_task" -> "pool.snapshottask.query"
      [] m = "smart_test_task" -> "smart.test.query"
      [] OTHER -> "none"

\* The lookup was answered.
Queried == \E i \in DOMAIN calls : calls[i].method = QueryOf(mod) /\ calls[i].ok

\* C1: an invocation that ends with changed = false has issued no
\* mutating call or job, successful or not.
C1_NoCallWhenUnchanged ==
    (pc = "done" /\ ~result.changed) => MutatingCalls = {}

\* C2: when the lookup finds nothing and the desired state is absent, the
\* invocation ends successfully with changed = false and no mutating call.
C2_AbsentOnAbsent ==
    (Queried /\ info = <<>> /\ Has(params, "state") /\ params.state = "absent")
        => (pc = "done" /\ ~result.changed /\ MutatingCalls = {})

\* The second of two invocations with the same parameters, outside check
\* mode, has ended after its lookup was answered.
SecondRunEnded == run = 2 /\ Ended /\ ~check_mode /\ Queried

\* C3: for group, certificate and NFS export, a second invocation with
\* the same parameters reports changed = false and issues nothing but the
\* lookup; a group g1 wanted with gid 1000 and found with gid 1000 gives an
\* empty diff and no mutating call.
C3_SecondRunUnchanged ==
    /\ (mod \in RerunModules /\ SecondRunEnded)
          => (pc = "done" /\ ~result.changed /\ Len(calls) = 1)
    /\ (mod = "group" /\ Queried /\ info # <<>> /\ info[1].gid = 1000
        /\ params.state = "present" /\ Has(params, "gid") /\ params.gid = 1000)
          => (pc = "done" /\ ~result.changed /\ DOMAIN arg = {} /\ MutatingCalls = {})

\* An invocation of jail_fstab outside check mode has ended with changes
\* queued and no call refused by the daemon.
FstabChanged ==
    /\ mod = "jail_fstab" /\ ~check_mode /\ Ended /\ AllOk
    /\ Has(local, "changes") /\ local.changes # <<>>

IsFstabMutation(c) == c.method = "jail.fstab" /\ Mutating(c)

FstabMutations == SelectSeq(calls, IsFstabMutation)

\* C4: with changes queued outside check mode, a jail found up is stopped,
\* then every fstab mutation is issued, then the jail is started, once per
\* invocation, and the jail is up at the end; a jail found down is neither
\* stopped nor started.
C4_StopApplyStart ==
    FstabChanged =>
        IF info[1].state = "up"
        THEN /\ Len(MutatingSeq) = Len(local.changes) + 2
             /\ Head(MutatingSeq).method = "jail.stop"
             /\ MutatingSeq[Len(MutatingSeq)].method = "jail.start"
             /\ \A i \in 2..(Len(MutatingSeq) - 1) : IsFstabMutation(MutatingSeq[i])
             /\ daemon[1].state = "up"
        ELSE \A i \in DOMAIN calls : calls[i].method \notin {"jail.stop", "jail.start"}

FstabKind(action) ==
    CASE action = "add" -> "ADD"
      [] action = "remove" -> "REMOVE"
      [] action = "replace" -> "REPLACE"

\* C5: every queued change produces exactly one jail.fstab mutation of the
\* matching kind; an entry at /data wanted absent and found gives the jail
\* stopped, one REMOVE, the jail started and changed = true.
C5_OneMutationPerChange ==
    FstabChanged =>
        /\ Len(FstabMutations) = Len(local.changes)
        /\ \A i \in DOMAIN FstabMutations :
              FstabMutations[i].payload.action = FstabKind(local.changes[i].action)
        /\ pc = "done" /\ result.changed

\* An invocation to delete a jail or a plugin that exists has ended,
\* outside check mode, with no call refused by the daemon.
JailDeleted ==
    /\ mod \in {"jail", "plugin"} /\ ~check_mode /\ Ended /\ AllOk
    /\ Queried /\ info # <<>> /\ params.state = "absent"

\* C6: a jail or plugin to delete whose jail is up is stopped by a job
\* before the delete is issued; one whose jail is down is deleted without
\* a stop; the invocation ends with changed = true.
C6_StopBeforeDelete ==
    JailDeleted =>
        /\ pc = "done" /\ result.changed
        /\ IF info[1].state = "up"
           THEN /\ Len(MutatingSeq) = 2
                /\ MutatingSeq[1].method = "jail.stop" /\ MutatingSeq[1].kind = "job"
                /\ MutatingSeq[2].method \in {"jail.delete", "plugin.delete"}
           ELSE /\ Len(MutatingSeq) = 1
                /\ MutatingSeq[1].method \in {"jail.delete", "plugin.delete"}

\* The task asks for a volblocksize or a sparse setting other than that of
\* the volume found.
FsCreationOnlyChange ==
    /\ mod = "filesystem" /\ Queried /\ info # <<>> /\ info[1].type = "VOLUME"
    /\ params.state = "present"
    /\ \/ Has(params, "volblocksize")
          /\ params.volblocksize # prop_rawvalue(info[1], "volblocksize")
       \/ Has(params, "sparse")
          /\ ~same_value_bool(params.sparse, prop_rawvalue(info[1], "sparse"))

\* C7: asking for a volblocksize or sparse other than that of an existing
\* volume makes the invocation fail; the request is neither ignored nor
\* sent in the update payload.
C7_CreationOnlyFails ==
    FsCreationOnlyChange =>
        /\ pc = "failed"
        /\ MutatingCalls = {}
        /\ ~Has(arg, "sparse") /\ ~Has(arg, "volblocksize")

UpdateMethods ==
    {"group.update", "certificate.update", "sharing.nfs.update", "app.update",
     "pool.dataset.update", "user.update"}

\* The option of the task a field of an update payload comes from.
ParamOf(k) ==
    CASE k = "ro" -> "readonly"
      [] k = "full_name" -> "comment"
      [] k = "allow_duplicate_gid" -> "non_unique"
      [] OTHER -> k

\* The field of the payload differs from what the lookup found.
FieldDiffers(payload, k) ==
    CASE mod = "app" ->
           \A i \in DOMAIN payload[k] :
              AppStep(info[1].config, payload[k][i]) = "update"
      [] mod = "filesystem" ->
           /\ Has(FsStored(payload), k)
           /\ FsStored(payload)[k] # prop_rawvalue(info[1], k)
      [] mod = "user" /\ k = "groups" -> payload[k] # ToSet(info[1].groups)
      [] OTHER -> Has(info[1], k) /\ info[1][k] # payload[k]

\* C8: an update payload holds only fields the task supplies and whose
\* desired value differs from the observed one.
C8_PayloadIsDiff ==
    \A i \in DOMAIN calls :
        (calls[i].method \in UpdateMethods /\ info # <<>>) =>
            \A k \in DOMAIN calls[i].payload :
                /\ Has(params, ParamOf(k))
                /\ FieldDiffers(calls[i].payload, k)

\* The module has compared an existing resource with the task.
Compared ==
    /\ Queried /\ info # <<>> /\ params.state = "present"
    /\ pc \notin {"start", "user.query", "group.query", "crashed"}

\* The user as the payload leaves it.
UserApplied == Merge(info[1], arg)

\* C9: when a task sets one of a mutually exclusive pair to a value other
\* than the observed one and the other of the pair is set on the resource,
\* the payload sets the one and clears the other: maproot and mapall of an
\* NFS export, sudo with and without password of a user under the old API.
C9_ExclusivePairCleared ==
    /\ (mod \in NfsModules /\ Compared) =>
          \A k \in NfsMapParams :
             (Has(params, k) /\ info[1][k] # params[k] /\ info[1][NfsOther(k)] # None)
                => /\ Has(arg, k) /\ arg[k] = params[k]
                   /\ Has(arg, NfsOther(k)) /\ arg[NfsOther(k)] = None
    /\ (mod = "user" /\ Compared /\ old_sudo_api(tn_version) /\ ~old_sudo_call) =>
          /\ (Has(params, "sudo_commands") /\ info[1].sudo /\ info[1].sudo_nopasswd)
                => /\ Has(arg, "sudo_nopasswd") /\ ~arg.sudo_nopasswd
                   /\ UserApplied.sudo
                   /\ ToSet(UserApplied.sudo_commands)
                         = ToSet(SudoWant(params.sudo_commands))
          /\ (Has(params, "sudo_commands_nopasswd")
              /\ info[1].sudo /\ ~info[1].sudo_nopasswd)
                => /\ Has(arg, "sudo_nopasswd") /\ arg.sudo_nopasswd
                   /\ UserApplied.sudo
                   /\ ToSet(UserApplied.sudo_commands)
                         = ToSet(SudoWant(params.sudo_commands_nopasswd))

\* An update has been sent that clears one of a pair: of an NFS export, of
\* the sudo settings of a user.
C9_Witness ==
    /\ mod \in NfsModules /\ Compared /\ pc = "done" /\ ~check_mode
    /\ Has(params, "maproot_user") /\ info[1].mapall_user # None
    /\ Has(arg, "mapall_user") /\ arg.mapall_user = None
    /\ \E i \in DOMAIN calls : calls[i].method = "sharing.nfs.update" /\ calls[i].ok

IsPerm(s, t) == Len(s) = Len(t) /\ ToSet(s) = ToSet(t)

CertCreateRevoked ==
    /\ mod = "certificate" /\ ~check_mode /\ Queried /\ info = <<>>
    /\ params.state = "present" /\ params.revoked

\* C11: creating a revoked certificate issues the certificate.create job,
\* and only after it has succeeded the certificate.update call that revokes;
\* when that update fails the invocation fails, no further call is issued
\* and the certificate stays created and unrevoked.
C11_CreateThenRevoke ==
    CertCreateRevoked =>
        /\ \A i \in DOMAIN calls :
              calls[i].method = "certificate.update" =>
                 /\ i > 1
                 /\ calls[i-1].method = "certificate.create"
                 /\ calls[i-1].kind = "job" /\ calls[i-1].ok
                 /\ calls[i].payload = [revoked |-> TRUE]
                 /\ ~calls[i].ok =>
                       /\ pc = "failed" /\ i = Len(calls)
                       /\ daemon # <<>> /\ ~daemon[1].revoked
        /\ pc = "done" =>
              /\ Len(calls) = 3 /\ calls[3].method = "certificate.update"
              /\ daemon # <<>> /\ daemon[1].revoked /\ result.changed
        /\ \A i \in DOMAIN calls : calls[i].method # "certificate.delete"

\* The revoking update has failed after a successful create.
C11_Witness ==
    /\ CertCreateRevoked /\ pc = "failed" /\ Len(calls) = 3
    /\ calls[2].method = "certificate.create" /\ calls[2].ok
    /\ calls[3].method = "certificate.update" /\ ~calls[3].ok

\* A module is running, not a bare caller of module_utils.
Reconciling == mod \notin {"facade", "setup", "filesystem_acl"}

\* C12: when a create, update, delete, start, stop or restart call or job
\* raises an error the invocation ends in failure: it does not end with a
\* successful report, and no call follows the failed one.
C12_ErrorsAreFatal ==
    \A i \in DOMAIN calls :
       (Reconciling /\ Mutating(calls[i]) /\ ~calls[i].ok) =>
          /\ i = Len(calls)
          /\ pc \in {"failed", "crashed"}

\* An operation of a caller of the facade that got as far as the daemon.
Reached(c) == ~(c.payload.transport = "MiddlewareClient" /\ c.payload.client = 0)

\* C13: under either transport, and for call as for job, invoking a
\* method the daemon does not have raises MethodNotFoundError, the
\* collection's own error kind, not a generic error.
C13_MethodNotFound ==
    mod = "facade" =>
       \A i \in DOMAIN calls :
          (calls[i].method = "no.such.method" /\ Reached(calls[i]))
             => calls[i].payload.raised = "MethodNotFoundError"

\* C15: over any sequence of call and job operations through the client
\* transport the connection is made at most once, on first use, and every
\* operation that has a connection uses that one.
C15_OneConnection ==
    mod = "facade" =>
       /\ mw.connects <= 1
       /\ mw.client \in {0, 1}
       /\ (mw.picked # "MiddlewareClient" => mw.connects = 0)
       /\ \A i \in DOMAIN calls :
             /\ calls[i].payload.client \in {0, 1}
             /\ (calls[i].payload.client = 1 =>
                   \A j \in i..Len(calls) : calls[j].payload.client = 1)

\* Three operations, a call and a job among them, have gone over one
\* connection made by the first of them.
C15_Witness ==
    /\ mod = "facade" /\ mw.picked = "MiddlewareClient" /\ Len(calls) = MaxOps
    /\ \A i \in DOMAIN calls : calls[i].payload.client = 1
    /\ \E i, j \in DOMAIN calls : calls[i].kind = "call" /\ calls[j].kind = "job"
    /\ mw.connects = 1

\* C16: the facade picks the transport from the middleware_method flag:
\* unset and 'midclt' pick midclt, 'client' picks the persistent client, any
\* other value raises before any call or job is forwarded.
C16_PickByFlag ==
    (mod = "facade" /\ pc # "start") =>
       /\ mw.method \in {"unset", "midclt"} => (pc = "ready" /\ mw.picked = "Midclt")
       /\ mw.method = "client" => (pc = "ready" /\ mw.picked = "MiddlewareClient")
       /\ mw.method \notin {"unset", "midclt", "client"} =>
             (pc = "crashed" /\ calls = <<>> /\ mw.picked = "none" /\ mw.connects = 0)
       /\ \A i \in DOMAIN calls : calls[i].payload.transport = mw.picked

\* An unknown flag has been refused.
C16_Witness ==
    mod = "facade" /\ mw.method = "rest" /\ pc = "crashed" /\ calls = <<>>

\* What a run of jails.py over a transport comes to, for the daemon the
\* run started with: the methods invoked, the end state, the changed flag.
JailsRun(picked) ==
    LET d == local.script
        p1 == JailsAfterQuery(Transport(picked, "call", JailsLookup(d), "str"))
        p2 == JailsAfterActivate(Transport(picked, "call", d.activate, "str"))
    IN  IF p1.pc # "jail.activate"
        THEN [methods |-> <<"jail.get_activated_pool">>, pc |-> p1.pc,
              changed |-> p1.changed]
        ELSE [methods |-> <<"jail.get_activated_pool", "jail.activate">>,
              pc |-> p2.pc, changed |-> p2.changed]

\* The run as it went.
JailsRan ==
    [methods |-> [i \in DOMAIN calls |-> calls[i].method], pc |-> pc,
     changed |-> result.changed]

\* C14: a reconciler does not depend on the transport: for the same daemon
\* the jails module invokes the same methods and ends with the same outcome
\* and changed flag under midclt as under the client.
C14_TransportAgnostic ==
    (mod = "jails" /\ Ended /\ mw.picked # "none") =>
       /\ JailsRan = JailsRun(mw.picked)
       /\ JailsRun("Midclt") = JailsRun("MiddlewareClient")

\* The daemon answers every version query.
VersionDaemonOk == daemon[1].fail = 0 /\ _pick_method(mw.method) # "Exception"

\* C17: get_tn_version() is memoized: only the first call of a process
\* sends version queries to the daemon, and every later call returns the
\* value of the first without a daemon call.
C17_VersionMemoized ==
    (mod = "setup" /\ VersionDaemonOk) =>
       /\ \A i \in DOMAIN calls : calls[i].payload.by = 1
       /\ \A k \in DOMAIN local :
             k >= 2 => (local[k].raised = "none" /\ local[k].value = local[1].value)

\* C18: for a version string <product>-<type>-<version> or
\* <product>-<version>, get_tn_version() returns the product name, the
\* product type and the version parsed out of it; for a string that does not
\* match, it returns with the raw string as the version.
C18_VersionParsed ==
    (mod = "setup" /\ VersionDaemonOk /\ Len(local) >= 1) =>
       /\ local[1].raised = "none"
       /\ local[1].value.type = daemon[1].product_type
       /\ daemon[1].version = "TrueNAS-SCALE-22.12.3.1" =>
             /\ local[1].value.name = "TrueNAS"
             /\ local[1].value.version = <<22, 12, 3, 1>>
       /\ daemon[1].version = "TrueNAS-13.0-U5" => local[1].value.name = "TrueNAS"
       /\ daemon[1].version = "22.12" => local[1].value.version = <<22, 12>>

\* A job the run has issued.
Issued(method) == \E i \in DOMAIN calls : calls[i].method = method /\ calls[i].kind = "job"

\* C19: for an existing jail, outside check mode: with state=running the
\* jail is up at the end, jail.start being issued and changed reported
\* exactly when it was down; with state=stopped the jail is down at the end,
\* jail.stop being issued and changed reported exactly when it was up.
C19_RunningStopped ==
    (mod = "jail" /\ ~check_mode /\ Queried /\ info # <<>> /\ pc = "done") =>
       /\ params.state = "running" =>
             /\ daemon[1].state = "up"
             /\ Issued("jail.start") <=> info[1].state = "down"
             /\ result.changed <=> info[1].state = "down"
       /\ params.state = "stopped" =>
             /\ daemon[1].state = "down"
             /\ Issued("jail.stop") <=> info[1].state = "up"
             /\ result.changed <=> info[1].state = "up"

\* The existing dataset has the type and every property the task supplies.
FsMatches ==
    /\ mod = "filesystem" /\ Queried /\ info # <<>> /\ params.state = "present"
    /\ info[1].type = params.type
    /\ Has(params, "volsize") => Str(params.volsize) = prop_rawvalue(info[1], "volsize")
    /\ Has(params, "volblocksize") =>
          params.volblocksize = prop_rawvalue(info[1], "volblocksize")
    /\ Has(params, "sparse") =>
          /\ prop_rawvalue(info[1], "sparse") # None
          /\ params.sparse <=> Lower(prop_rawvalue(info[1], "sparse")) \in {"on", "true", "1"}
    /\ Has(params, "compression") =>
          /\ prop_rawvalue(info[1], "compression") # None
          /\ Lower(params.compression) = Lower(prop_rawvalue(info[1], "compression"))
    /\ Has(params, "comments") => params.comments = prop_rawvalue(info[1], "comments")

\* C20: when the existing dataset, FILESYSTEM or VOLUME, already matches
\* every property the task supplies, no pool.dataset.update is issued and
\* changed is false.
C20_FilesystemIdempotent ==
    FsMatches =>
       /\ pc = "done"
       /\ ~result.changed
       /\ \A i \in DOMAIN calls : calls[i].method # "pool.dataset.update"

\* The certificate module has found no certificate and is to have one.
CertMissing ==
    /\ mod = "certificate" /\ run = 1 /\ Queried /\ info = <<>>
    /\ params.state = "present"

\* C21: a task with only name and revoked=yes, for a certificate that
\* does not exist, ends in an error, not with a successful changed=true.
C21_RevokeOnlyFails ==
    (CertMissing /\ params.revoked /\ ~Has(params, "certificate")
     /\ ~Has(params, "private_key") /\ Ended)
        => pc \in {"failed", "crashed"}

\* C22: {name: cert1, state: present, certificate: PEM} with no certificate
\* found sends one certificate.create job with the payload {name,
\* create_type: CERTIFICATE_CREATE_IMPORTED, certificate}, no other mutating
\* call, and reports changed=true.
C22_ImportPayload ==
    (CertMissing /\ ~check_mode
     /\ params = [name |-> "cert1", state |-> "present", revoked |-> FALSE,
                  certificate |-> "PEM"])
        => /\ \A i \in MutatingCalls :
                 /\ i = 2 /\ calls[i].method = "certificate.create"
                 /\ calls[i].kind = "job"
                 /\ calls[i].payload = [name |-> "cert1",
                                        create_type |-> "CERTIFICATE_CREATE_IMPORTED",
                                        certificate |-> "PEM"]
           /\ pc = "done" => (Len(calls) = 2 /\ MutatingCalls = {2} /\ result.changed)
           /\ pc \in {"done", "failed", "certificate.create"}

\* The certificate has been imported.
C22_Witness ==
    /\ CertMissing /\ ~check_mode /\ pc = "done" /\ result.changed
    /\ params = [name |-> "cert1", state |-> "present", revoked |-> FALSE,
                 certificate |-> "PEM"]
    /\ Len(calls) = 2 /\ calls[2].method = "certificate.create" /\ calls[2].ok

\* C23: in check mode a module issues no mutating call or job, only
\* queries, and when its queries are answered it still ends with a report
\* (exit_json or fail_json), not with an exception.
C23_CheckModeSafe ==
    (check_mode /\ Reconciling) =>
       /\ MutatingCalls = {}
       /\ (Ended /\ AllOk) => pc \in {"done", "failed"}

AppWaiting == mod = "app" /\ pc \in {"wait_running", "wait_stopped"}

AppPolled == calls'[Len(calls')].method = "app.query" /\ calls'[Len(calls')].ok

\* One answered poll of a wait loop: again only on DEPLOYING (STOPPING),
\* success exactly on RUNNING (STOPPED), an exception on anything else.
AppWaitStep ==
    (AppWaiting /\ Len(calls') = Len(calls) + 1 /\ AppPolled) =>
       LET st == daemon'[1].state
           waitfor == IF pc = "wait_running" THEN "DEPLOYING" ELSE "STOPPING"
           goal == IF pc = "wait_running" THEN "RUNNING" ELSE "STOPPED"
       IN  /\ pc' = pc <=> st = waitfor
           /\ pc' = "done" <=> st = goal
           /\ pc' \in {pc, "done", "crashed"}
           /\ result' = result

\* C24: the app wait loops poll app.query again only while the state is
\* DEPLOYING (after start) or STOPPING (after stop); once the daemon reports
\* another state the invocation ends, with success iff that state is RUNNING
\* (respectively STOPPED) and with an exception otherwise.
C24_WaitLoops == [][AppWaitStep]_vars /\ (AppWaiting ~> Ended)

\* The loop slept through DEPLOYING and returned on RUNNING.
C24_Witness ==
    /\ mod = "app" /\ pc = "done" /\ local.polls >= 1
    /\ Issued("app.start")
    /\ daemon # <<>> /\ daemon[1].state = "RUNNING"

AppUpdates == {i \in DOMAIN calls : calls[i].method = "app.update"}

\* Some desired value differs from the value app.config returns.
AppDiffers ==
    \E i \in DOMAIN params.values :
       LET x == <<params.values[i].key, params.values[i].subkey>>
       IN  x \in DOMAIN info[1].config
           /\ _detect_changes(info[1].config[x], params.values[i].value)

\* C25: for an existing app with desired state present, running or
\* restarted, the app.update job is issued at most once per invocation, and
\* only if some desired value differs from the value app.config returned.
C25_UpdateAtMostOnce ==
    (mod = "app" /\ info # <<>> /\ params.state \in {"present", "running", "restarted"}) =>
       /\ Cardinality(AppUpdates) <= 1
       /\ AppUpdates # {} => AppDiffers

\* Every field the task supplies already has its value in the task.
SnapTaskSame(task_info) ==
    /\ task_info.dataset = params.dataset
    /\ task_info.recursive = params.recursive
    /\ task_info.lifetime_value = params.lifetime_value
    /\ task_info.lifetime_unit = SnapTaskUnit[params.lifetime_unit]
    /\ task_info.naming_schema = params.name_format
    /\ Has(params, "exclude") => ToSet(params.exclude) = ToSet(task_info.exclude)
    /\ Has(params, "enabled") => params.enabled = task_info.enabled
    /\ Has(params, "minute") => params.minute = task_info.schedule.minute
    /\ Has(params, "begin_time") =>
          SnapTaskTime(params.begin_time) = task_info.schedule.begin

\* C26: for an existing non-recursive snapshot task whose exclusion list is
\* empty and whose supplied fields all match, no pool.snapshottask.update
\* is issued (or planned) and the invocation reports changed = false.
C26_ExcludeNoUpdate ==
    (/\ mod = "pool_snapshot_task" /\ Queried /\ info # <<>>
     /\ params.state = "present"
     /\ ~info[1].recursive /\ info[1].exclude = <<>>
     /\ SnapTaskSame(info[1]))
        => /\ Ended => (pc = "done" /\ ~result.changed)
           /\ \A i \in DOMAIN calls : calls[i].method # "pool.snapshottask.update"

\* The disks value an update has to carry, empty when the desired disks
\* are the observed ones.
SmartTestDisksWanted ==
    LET want_disks == [i \in DOMAIN params.disks |-> diskname2id(params.disks[i])]
    IN  IF "ALL" \in ToSet(params.disks)
        THEN IF ~info[1].all_disks THEN [all_disks |-> TRUE] ELSE NoArg
        ELSE IF info[1].all_disks THEN [all_disks |-> FALSE, disks |-> want_disks]
        ELSE IF ToSet(info[1].disks) # ToSet(want_disks) THEN [disks |-> want_disks]
        ELSE NoArg

SmartTestUpdates == {i \in DOMAIN calls : calls[i].method = "smart.test.update"}

\* C27: for an existing smart test task, outside check mode: when the
\* desired disks differ from the observed ones a smart.test.update carrying
\* the new disks / all_disks value is issued and changed = true is reported;
\* when they are the same, an update carries neither disks nor all_disks.
C27_DisksUpdated ==
    (/\ mod = "smart_test_task" /\ Queried /\ info # <<>>
     /\ params.state = "present" /\ ~check_mode /\ pc = "done")
        => LET want == SmartTestDisksWanted
           IN  /\ want # NoArg =>
                     /\ result.changed
                     /\ \E i \in SmartTestUpdates :
                           Restrict(calls[i].payload, {"disks", "all_disks"}) = want
               /\ want = NoArg =>
                     \A i \in SmartTestUpdates :
                        Restrict(calls[i].payload, {"disks", "all_disks"}) = NoArg

UserCreates == {i \in DOMAIN calls : calls[i].method = "user.create"}

NewSudoRange(v) ==
    \/ VGe(v, <<12, 12, 0>>) /\ VLt(v, <<13, 0, 0>>)
    \/ VGe(v, <<22, 12, 1>>) /\ VLt(v, <<23, 0, 0>>)
    \/ VGe(v, <<23, 10, 0>>)

RECURSIVE SameAsMultisets(_, _)
SameAsMultisets(x, y) ==
    IF type(x) # type(y) THEN FALSE
    ELSE IF IsDict(x)
    THEN /\ DOMAIN x.dict = DOMAIN y.dict
         /\ \A k \in DOMAIN x.dict : SameAsMultisets(x.dict[k], y.dict[k])
    ELSE IF IsList(x)
    THEN /\ Len(x.list) = Len(y.list)
         /\ \E p \in [DOMAIN x.list -> DOMAIN x.list] :
               /\ \A i, j \in DOMAIN x.list : p[i] = p[j] => i = j
               /\ \A i \in DOMAIN x.list : SameAsMultisets(x.list[i], y.list[p[i]])
    ELSE x.val = y.val

\* C30: has_object_changed(d1, d2) is False whenever d2 is d1 with lists
\* reordered at any nesting depth, True whenever the two differ as nested
\* structures with lists as multisets, and the same in both directions.
C30_ChangedIffDifferent ==
    (mod = "filesystem_acl" /\ pc = "done") =>
       /\ result.changed = ~SameAsMultisets(params.d1, params.d2)
       /\ result.changed = has_object_changed(params.d2, params.d1)

====
